---- MODULE Spec2Model ----
(***************************************************************************)
(* Pahari Khet Sahayak: the Agri Assistant page's request pipeline         *)
(* (validate -> offline check -> route -> tool -> answer -> persist), the  *)
(* chat log store and the offline similarity search.                       *)
(*                                                                         *)
(* Text that the code inspects character by character (user queries,       *)
(* stored queries, keyword lists) is a sequence of one-character strings.  *)
(* Fixed user-visible messages are records [msg |-> <name>, ...].          *)
(* Values parsed from model output (json.loads) are tagged records.        *)
(***************************************************************************)
EXTENDS Integers, Sequences, FiniteSets, TLC

(***************************************************************************)
(* Python str operations used by the code                                  *)
(***************************************************************************)

\* str.lower on one character (the upper-case letters that occur in Queries)
LowerChar(c) ==
  CASE c = "H" -> "h"
    [] c = "R" -> "r"
    [] c = "A" -> "a"
    [] OTHER -> c

\* str.lower
Lower(s) == [i \in 1..Len(s) |-> LowerChar(s[i])]

\* str.isspace on one character
IsSpace(c) == c = " "

RECURSIVE LStrip(_)
\* str.lstrip
LStrip(s) == IF s # <<>> /\ IsSpace(Head(s)) THEN LStrip(Tail(s)) ELSE s

RECURSIVE RStrip(_)
\* str.rstrip
RStrip(s) ==
  IF s # <<>> /\ IsSpace(s[Len(s)]) THEN RStrip(SubSeq(s, 1, Len(s) - 1)) ELSE s

\* str.strip
Strip(s) == RStrip(LStrip(s))

\* str.startswith
StartsWith(s, p) == Len(p) <= Len(s) /\ SubSeq(s, 1, Len(p)) = p

\* the Python operator `sub in s` on strings
Contains(s, sub) ==
  \E i \in 1..(Len(s) - Len(sub) + 1) : SubSeq(s, i, i + Len(sub) - 1) = sub

RECURSIVE SplitFrom(_, _, _)
\* str.split() with no separator: runs of whitespace separate, no empty tokens
SplitFrom(s, cur, acc) ==
  IF s = <<>> THEN (IF cur = <<>> THEN acc ELSE Append(acc, cur))
  ELSE IF IsSpace(Head(s))
       THEN SplitFrom(Tail(s), <<>>, IF cur = <<>> THEN acc ELSE Append(acc, cur))
       ELSE SplitFrom(Tail(s), Append(cur, Head(s)), acc)

Split(s) == SplitFrom(s, <<>>, <<>>)

(***************************************************************************)
(* Keyword lists of the validator                                          *)
(***************************************************************************)

greetings ==
  {
    <<"h","e","l","l","o">>,
    <<"h","i">>,
    <<"h","e","y">>,
    <<"g","o","o","d"," ","m","o","r","n","i","n","g">>,
    <<"g","o","o","d"," ","a","f","t","e","r","n","o","o","n">>,
    <<"g","o","o","d"," ","e","v","e","n","i","n","g">>,
    <<"t","h","a","n","k","s">>,
    <<"t","h","a","n","k"," ","y","o","u">>,
    <<"b","y","e">>,
    <<"g","o","o","d","b","y","e">>,
    <<"s","e","e"," ","y","o","u">>
  }

agri_keywords ==
  {
    <<"c","r","o","p">>,
    <<"c","r","o","p","s">>,
    <<"f","a","r","m">>,
    <<"f","a","r","m","i","n","g">>,
    <<"f","a","r","m","e","r">>,
    <<"c","u","l","t","i","v","a","t","i","o","n">>,
    <<"p","l","a","n","t">>,
    <<"p","l","a","n","t","i","n","g">>,
    <<"h","a","r","v","e","s","t">>,
    <<"h","a","r","v","e","s","t","i","n","g">>,
    <<"s","o","w">>,
    <<"s","o","w","i","n","g">>,
    <<"s","e","e","d">>,
    <<"s","e","e","d","s">>,
    <<"f","i","e","l","d">>,
    <<"a","g","r","i","c","u","l","t","u","r","e">>,
    <<"w","h","e","a","t">>,
    <<"r","i","c","e">>,
    <<"c","o","r","n">>,
    <<"m","a","i","z","e">>,
    <<"b","a","r","l","e","y">>,
    <<"m","i","l","l","e","t">>,
    <<"p","a","d","d","y">>,
    <<"s","u","g","a","r","c","a","n","e">>,
    <<"p","o","t","a","t","o">>,
    <<"t","o","m","a","t","o">>,
    <<"o","n","i","o","n">>,
    <<"g","a","r","l","i","c">>,
    <<"c","h","i","l","i">>,
    <<"p","e","p","p","e","r">>,
    <<"c","o","t","t","o","n">>,
    <<"j","u","t","e">>,
    <<"w","e","a","t","h","e","r">>,
    <<"r","a","i","n">>,
    <<"r","a","i","n","f","a","l","l">>,
    <<"t","e","m","p","e","r","a","t","u","r","e">>,
    <<"h","u","m","i","d","i","t","y">>,
    <<"c","l","i","m","a","t","e">>,
    <<"m","o","n","s","o","o","n">>,
    <<"d","r","o","u","g","h","t">>,
    <<"f","r","o","s","t">>,
    <<"s","e","a","s","o","n">>,
    <<"c","l","i","m","a","t","e"," ","c","h","a","n","g","e">>,
    <<"p","r","i","c","e">>,
    <<"p","r","i","c","e","s">>,
    <<"m","a","r","k","e","t">>,
    <<"m","a","n","d","i">>,
    <<"r","a","t","e">>,
    <<"c","o","s","t">>,
    <<"r","u","p","e","e">>,
    <<"q","u","i","n","t","a","l">>,
    <<"e","c","o","n","o","m","i","c">>,
    <<"p","r","o","f","i","t">>,
    <<"l","o","s","s">>,
    <<"s","e","l","l","i","n","g">>,
    <<"p","e","s","t","i","c","i","d","e">>,
    <<"f","e","r","t","i","l","i","z","e","r">>,
    <<"f","e","r","t","i","l","i","s","e","r">>,
    <<"i","n","s","e","c","t","i","c","i","d","e">>,
    <<"h","e","r","b","i","c","i","d","e">>,
    <<"f","u","n","g","i","c","i","d","e">>,
    <<"c","h","e","m","i","c","a","l">>,
    <<"o","r","g","a","n","i","c">>,
    <<"i","n","o","r","g","a","n","i","c">>,
    <<"u","r","e","a">>,
    <<"d","a","p">>,
    <<"n","p","k">>,
    <<"d","i","s","e","a","s","e">>,
    <<"p","e","s","t">>,
    <<"i","n","s","e","c","t">>,
    <<"f","u","n","g","u","s">>,
    <<"r","u","s","t">>,
    <<"b","l","i","g","h","t">>,
    <<"m","o","s","a","i","c">>,
    <<"v","i","r","u","s">>,
    <<"b","a","c","t","e","r","i","a","l">>,
    <<"t","r","e","a","t","m","e","n","t">>,
    <<"c","u","r","e">>,
    <<"p","r","e","v","e","n","t","i","o","n">>,
    <<"c","o","n","t","r","o","l">>,
    <<"s","o","i","l">>,
    <<"i","r","r","i","g","a","t","i","o","n">>,
    <<"w","a","t","e","r">>,
    <<"n","u","t","r","i","e","n","t">>,
    <<"n","i","t","r","o","g","e","n">>,
    <<"p","h","o","s","p","h","o","r","u","s">>,
    <<"p","o","t","a","s","s","i","u","m">>,
    <<"p","h">>,
    <<"c","o","m","p","o","s","t">>,
    <<"m","a","n","u","r","e">>,
    <<"a","g","r","i","c","u","l","t","u","r","a","l">>,
    <<"c","r","o","p"," ","r","o","t","a","t","i","o","n">>,
    <<"i","n","t","e","r","c","r","o","p","p","i","n","g">>,
    <<"o","r","g","a","n","i","c"," ","f","a","r","m","i","n","g">>,
    <<"s","u","s","t","a","i","n","a","b","l","e">>,
    <<"y","i","e","l","d">>,
    <<"p","r","o","d","u","c","t","i","o","n">>,
    <<"a","c","r","e">>,
    <<"h","e","c","t","a","r","e">>
  }

non_agri_keywords ==
  {
    <<"p","y","t","h","o","n">>,
    <<"p","r","o","g","r","a","m","m","i","n","g">>,
    <<"c","o","d","e">>,
    <<"s","o","f","t","w","a","r","e">>,
    <<"a","p","p">>,
    <<"w","e","b","s","i","t","e">>,
    <<"m","o","v","i","e">>,
    <<"f","i","l","m">>,
    <<"s","o","n","g">>,
    <<"m","u","s","i","c">>,
    <<"g","a","m","e">>,
    <<"s","p","o","r","t">>,
    <<"f","o","o","t","b","a","l","l">>,
    <<"c","r","i","c","k","e","t">>,
    <<"c","o","o","k","i","n","g"," ","r","e","c","i","p","e">>,
    <<"h","o","w"," ","t","o"," ","c","o","o","k">>,
    <<"r","e","s","t","a","u","r","a","n","t">>,
    <<"r","e","c","i","p","e"," ","f","o","r">>,
    <<"m","e","d","i","c","a","l">>,
    <<"d","o","c","t","o","r">>,
    <<"h","o","s","p","i","t","a","l">>,
    <<"m","e","d","i","c","i","n","e">>,
    <<"h","e","a","l","t","h"," ","c","h","e","c","k">>,
    <<"s","h","o","p","p","i","n","g">>,
    <<"b","u","y">>,
    <<"s","h","o","p">>,
    <<"p","r","o","d","u","c","t">>
  }

(***************************************************************************)
(* Bounds of the model                                                     *)
(***************************************************************************)

\* prompts submitted before the model stops submitting
MaxRequests == 2

(***************************************************************************)
(* Inputs: the prompts a user may type                                     *)
(***************************************************************************)

\* a greeting; an agriculture query; one with an agriculture and an off-domain
\* keyword; one with an off-domain keyword only
QHi == <<"H","i">>
QRice == <<"r","i","c","e">>
QRiceApp == <<"R","i","c","e"," ","a","p","p">>
QApp == <<"a","p","p">>

Queries == {QHi, QRice, QRiceApp, QApp}

(***************************************************************************)
(* Values returned by json.loads                                           *)
(***************************************************************************)

JStr(s) == [t |-> "str", s |-> s]
JNum(n) == [t |-> "num", n |-> n]
JBool(b) == [t |-> "bool", b |-> b]
JNull == [t |-> "null"]
JList == [t |-> "list"]
JObj(o) == [t |-> "obj", o |-> o]
\* a text that is not JSON: json.loads raises JSONDecodeError
NotJson == [t |-> "invalid"]

\* Python truthiness of a parsed value
Truthy(v) ==
  CASE v.t = "bool" -> v.b
    [] v.t = "str" -> v.s # ""
    [] v.t = "num" -> v.n # 0
    [] v.t = "null" -> FALSE
    [] v.t = "list" -> FALSE
    [] v.t = "obj" -> DOMAIN v.o # {}

\* dict.get(key, default)
DictGet(d, key, default) == IF key \in DOMAIN d THEN d[key] ELSE default

(***************************************************************************)
(* str.format on the three prompt templates.  A template is the sequence   *)
(* of its lexemes: "{" and "}" are the brace characters, ":" the first     *)
(* colon inside a brace pair, anything else is text without braces.        *)
(***************************************************************************)

\* src/pages/1_Agri_Assistant.py:90-120: the JSON examples are written with
\* single braces
router_prompt ==
  << "instructions; the available tools are: 1. ",
     "{", "\"tool\"", ":", " \"weather\", \"location\": \"...\"", "}", " 2. ",
     "{", "\"tool\"", ":", " \"market_price\", \"crop\": \"...\", \"state\": \"...\"", "}", " 3. ",
     "{", "\"tool\"", ":", " \"general_search\", \"query\": \"...\"", "}", " 4. ",
     "{", "\"tool\"", ":", " \"none\", \"reply\": \"...\"", "}", " examples: JSON: ",
     "{", "\"tool\"", ":", " \"weather\", \"location\": \"Dehradun\"", "}", " JSON: ",
     "{", "\"tool\"", ":", " \"market_price\", \"crop\": \"wheat\", \"state\": \"Punjab\"", "}", " JSON: ",
     "{", "\"tool\"", ":", " \"general_search\", \"query\": \"how to treat blast disease in rice\"", "}", " JSON: ",
     "{", "\"tool\"", ":", " \"none\", \"reply\": \"Hello! ...\"", "}", " JSON: ",
     "{", "\"tool\"", ":", " \"none\", \"reply\": \"You're welcome! ...\"", "}",
     " --- User Query: ", "{", "query", "}", " JSON: " >>

\* src/pages/1_Agri_Assistant.py:140-195: the JSON examples are written with
\* doubled braces
validation_prompt ==
  << "instructions; your response MUST be a single line of valid JSON: ",
     "{", "{", "\"is_agriculture_related\": true/false, \"reason\": \"brief explanation\"", "}", "}",
     " examples: Response: ",
     "{", "{", "\"is_agriculture_related\": true, \"reason\": \"...\"", "}", "}", " Response: ",
     "{", "{", "\"is_agriculture_related\": true, \"reason\": \"...\"", "}", "}", " Response: ",
     "{", "{", "\"is_agriculture_related\": false, \"reason\": \"...\"", "}", "}", " Response: ",
     "{", "{", "\"is_agriculture_related\": true, \"reason\": \"...\"", "}", "}", " Response: ",
     "{", "{", "\"is_agriculture_related\": false, \"reason\": \"...\"", "}", "}", " Response: ",
     "{", "{", "\"is_agriculture_related\": true, \"reason\": \"...\"", "}", "}",
     " --- User Query: ", "{", "query", "}", " Response: " >>

\* src/pages/1_Agri_Assistant.py:124-136
answer_prompt_template ==
  << "You are 'Pahari Khet Sahayak' ... The user asked: \"", "{", "query", "}",
     "\" --- CONTEXT --- ", "{", "context", "}",
     " --- END OF CONTEXT --- Based *only* on the context provided ..." >>

RECURSIVE FieldEnd(_, _)
\* index of the "}" that closes the replacement field opened before index i
\* (0 when there is none)
FieldEnd(tpl, i) ==
  IF i > Len(tpl) THEN 0
  ELSE IF tpl[i] = "}" THEN i
  ELSE FieldEnd(tpl, i + 1)

RECURSIVE FormatFrom(_, _, _)
\* str.format(**args) from lexeme i on: "{{" and "}}" are literal braces, "{"
\* opens a replacement field whose name is the text up to the first ":" or
\* "}"; a name that is not a keyword argument raises KeyError
FormatFrom(tpl, i, args) ==
  IF i > Len(tpl) THEN "ok"
  ELSE IF tpl[i] = "{"
       THEN IF i < Len(tpl) /\ tpl[i + 1] = "{"
            THEN FormatFrom(tpl, i + 2, args)
            ELSE IF FieldEnd(tpl, i + 1) = 0
                 THEN "ValueError"
                 ELSE IF FieldEnd(tpl, i + 1) = i + 1
                      THEN "IndexError"
                      ELSE IF tpl[i + 1] \in DOMAIN args
                           THEN FormatFrom(tpl, FieldEnd(tpl, i + 1) + 1, args)
                           ELSE "KeyError"
  ELSE IF tpl[i] = "}"
       THEN IF i < Len(tpl) /\ tpl[i + 1] = "}"
            THEN FormatFrom(tpl, i + 2, args)
            ELSE "ValueError"
  ELSE FormatFrom(tpl, i + 1, args)

\* template.format(**args): "ok" when a prompt is produced, otherwise the name
\* of the exception raised
Format(tpl, args) == FormatFrom(tpl, 1, args)

(***************************************************************************)
(* User-visible texts.  A fixed message is [msg |-> <name>]; texts built    *)
(* from data carry the data in further fields.                              *)
(***************************************************************************)

Msg(name) == [msg |-> name]
\* the empty string
NoText == Msg("")
\* Python None where a dict is expected (context_data)
None == [none |-> TRUE]

(***************************************************************************)
(* Behaviours of the language-model service (generate_content, .text)      *)
(***************************************************************************)

\* the call raises; apikey: the error text contains "API key"
LLMThrows(apikey) == [kind |-> "throws", apikey |-> apikey]
\* the call returns text; fence: the text is wrapped in a ``` code fence;
\* inner: what json.loads makes of the text inside the fence
LLMText(fence, inner) == [kind |-> "text", fence |-> fence, inner |-> inner]

ValidationBehaviours ==
  { LLMThrows(FALSE),
    LLMText(FALSE, NotJson),
    LLMText(FALSE, JList),
    LLMText(FALSE, JObj(<<>>)),
    LLMText(FALSE, JObj([is_agriculture_related |-> JBool(TRUE)])),
    LLMText(TRUE, JObj([is_agriculture_related |-> JBool(TRUE)])),
    LLMText(FALSE, JObj([is_agriculture_related |-> JBool(FALSE), reason |-> JStr("off topic")])),
    LLMText(FALSE, JObj([is_agriculture_related |-> JStr("false")])) }

(***************************************************************************)
(* Domain validator                                                        *)
(***************************************************************************)

\* what the validator hands back, with the calls it made and what its
\* connectivity probe said ("skipped" when it took none)
ValidatorResult(is_valid, message, calls, probe) ==
  [valid |-> is_valid, message |-> message, calls |-> calls, p_validator |-> probe]

\* keyword_based_validation(query) -> (bool, message)
keyword_based_validation(query) ==
  LET query_lower == Lower(query)
      has_agri_keyword == \E keyword \in agri_keywords : Contains(query_lower, keyword)
  IN  IF (\E keyword \in non_agri_keywords : Contains(query_lower, keyword))
         /\ ~has_agri_keyword
      THEN <<FALSE, Msg("validation_rejected_keywords")>>
      ELSE IF has_agri_keyword \/ Len(Split(query)) <= 3
           THEN <<TRUE, NoText>>
           ELSE <<TRUE, NoText>>

\* validate_agriculture_query from its try block on (the query is no greeting
\* and the probe said online), for one behaviour of the validation model
ValidateWithModel(query, llm) ==
  LET calls == <<"is_online", "validation_model">>
      fallback == keyword_based_validation(query)
      viaKeywords == ValidatorResult(fallback[1], fallback[2], calls, "online")
  IN  IF Format(validation_prompt, [query |-> query]) # "ok"
      THEN ValidatorResult(fallback[1], fallback[2], <<"is_online">>, "online")
      ELSE IF llm.kind = "throws"
      THEN viaKeywords
      ELSE IF llm.inner.t = "invalid"
      THEN viaKeywords                     \* except json.JSONDecodeError
      ELSE IF llm.inner.t # "obj"
      THEN viaKeywords                     \* AttributeError on .get: except Exception
      ELSE IF Truthy(DictGet(llm.inner.o, "is_agriculture_related", JBool(FALSE)))
      THEN ValidatorResult(TRUE, NoText, calls, "online")
      ELSE ValidatorResult(FALSE, Msg("validation_rejected"), calls, "online")

\* lines 207-212: the query is, or starts with, a greeting
IsGreeting(query) ==
  LET query_lower == Strip(Lower(query))
  IN  \E g \in greetings : StartsWith(query_lower, g) \/ query_lower = g

\* validate_agriculture_query without the greeting check of lines 211-213
validate_agriculture_query_no_greeting(query) ==
  UNION {
    IF ~online
    THEN { ValidatorResult(TRUE, NoText, <<"is_online">>, "offline") }
    ELSE { ValidateWithModel(query, llm) : llm \in ValidationBehaviours }
    : online \in BOOLEAN }

\* validate_agriculture_query applying the keyword lists when the probe says
\* offline
validate_agriculture_query_keywords_offline(query) ==
  IF IsGreeting(query)
  THEN { ValidatorResult(TRUE, NoText, <<>>, "skipped") }
  ELSE UNION {
         IF ~online
         THEN { ValidatorResult(keyword_based_validation(query)[1],
                                keyword_based_validation(query)[2],
                                <<"is_online">>, "offline") }
         ELSE { ValidateWithModel(query, llm) : llm \in ValidationBehaviours }
         : online \in BOOLEAN }

\* validate_agriculture_query(query): the set of its possible results, over
\* what the connectivity probe and the validation model may do
validate_agriculture_query(query) ==
  IF IsGreeting(query)
  THEN { ValidatorResult(TRUE, NoText, <<>>, "skipped") }
  ELSE UNION {
         IF ~online
         THEN { ValidatorResult(TRUE, NoText, <<"is_online">>, "offline") }
         ELSE { ValidateWithModel(query, llm) : llm \in ValidationBehaviours }
         : online \in BOOLEAN }

\* validate_agriculture_query(query) when the probe says `online` and the
\* validation model behaves as llm
ValidateUnder(query, online, llm) ==
  IF IsGreeting(query)
  THEN ValidatorResult(TRUE, NoText, <<>>, "skipped")
  ELSE IF ~online
  THEN ValidatorResult(TRUE, NoText, <<"is_online">>, "offline")
  ELSE ValidateWithModel(query, llm)

(***************************************************************************)
(* Chat log store (SQLite table chat_history)                              *)
(***************************************************************************)

VARIABLES
  chat_history,     \* the rows of table chat_history, in rowid order
  sqlite_sequence,  \* the AUTOINCREMENT counter: the largest id ever given
  clock,            \* the latest reading of datetime.now()
  last              \* the latest request: its inputs, the calls made, its result

vars == <<chat_history, sqlite_sequence, clock, last>>

\* the indices 1..Len(keys) ordered by descending key, equal keys in index
\* order (a stable descending sort)
OrderDesc(keys) ==
  LET n == Len(keys)
      Rank(i) == 1 + Cardinality({ j \in 1..n :
                       keys[j] > keys[i] \/ (keys[j] = keys[i] /\ j < i) })
  IN  [p \in 1..n |-> CHOOSE i \in 1..n : Rank(i) = p]

\* numpy.argsort(keys): ascending, without the reversal
ArgsortReversed_ascending(keys) ==
  LET n == Len(keys)
      Rank(i) == 1 + Cardinality({ j \in 1..n :
                       keys[j] < keys[i] \/ (keys[j] = keys[i] /\ j < i) })
  IN  [p \in 1..n |-> CHOOSE i \in 1..n : Rank(i) = p]

\* numpy.argsort(keys)[::-1]: a stable ascending sort, reversed
ArgsortReversed(keys) ==
  LET n == Len(keys)
      Rank(i) == 1 + Cardinality({ j \in 1..n :
                       keys[j] < keys[i] \/ (keys[j] = keys[i] /\ j < i) })
  IN  [p \in 1..n |-> CHOOSE i \in 1..n : Rank(i) = n + 1 - p]

\* seq[:k]
Take(seq, k) == SubSeq(seq, 1, IF k < Len(seq) THEN k ELSE Len(seq))

\* json.dumps(context_data) if context_data else None, read back by
\* json.loads(row[4]) if row[4] else None
StoredContext(context_data) ==
  IF context_data = None \/ DOMAIN context_data = {} THEN None ELSE context_data

\* save_chat as an upsert keyed by the query: a stored record with the same
\* user_query is overwritten in place
save_chat_upsert(table, seq, now, user_query, assistant_response, tool_used, context_data) ==
  LET row == [ id |-> seq + 1,
               user_query |-> user_query,
               assistant_response |-> assistant_response,
               tool_used |-> tool_used,
               context_data |-> StoredContext(context_data),
               timestamp |-> now ]
      same == { i \in 1..Len(table) : table[i].user_query = user_query }
  IN  IF same = {}
      THEN Append(table, row)
      ELSE [ i \in 1..Len(table) |-> IF i \in same THEN row ELSE table[i] ]

\* save_chat with a plain INTEGER PRIMARY KEY: the id is one more than the
\* largest id in the table
save_chat_rowid(table, seq, now, user_query, assistant_response, tool_used, context_data) ==
  LET ids == { table[i].id : i \in 1..Len(table) }
      top == IF ids = {} THEN 0 ELSE CHOOSE m \in ids : \A k \in ids : k <= m
  IN  Append(table, [ id |-> top + 1,
                      user_query |-> user_query,
                      assistant_response |-> assistant_response,
                      tool_used |-> tool_used,
                      context_data |-> StoredContext(context_data),
                      timestamp |-> now ])

\* save_chat: the table after the INSERT (id from AUTOINCREMENT, timestamp
\* from datetime.now())
save_chat(table, seq, now, user_query, assistant_response, tool_used, context_data) ==
  Append(table, [ id |-> seq + 1,
                  user_query |-> user_query,
                  assistant_response |-> assistant_response,
                  tool_used |-> tool_used,
                  context_data |-> StoredContext(context_data),
                  timestamp |-> now ])

\* get_all_chats(limit): ORDER BY timestamp DESC, LIMIT when limit is truthy
\* (limit = 0 stands for None)
get_all_chats(table, limit) ==
  LET order == OrderDesc([i \in 1..Len(table) |-> table[i].timestamp])
      rows == [p \in 1..Len(table) |-> table[order[p]]]
  IN  IF limit # 0 THEN Take(rows, limit) ELSE rows

\* SQLite's LIKE: % stands for any run of characters, _ for any one
\* character, letters compare without regard to case
RECURSIVE LikeFrom(_, _, _, _)
LikeFrom(pattern, i, text, j) ==
  IF i > Len(pattern)
  THEN j > Len(text)
  ELSE IF pattern[i] = "%"
  THEN \E k \in j..(Len(text) + 1) : LikeFrom(pattern, i + 1, text, k)
  ELSE /\ j <= Len(text)
       /\ pattern[i] = "_" \/ LowerChar(pattern[i]) = LowerChar(text[j])
       /\ LikeFrom(pattern, i + 1, text, j + 1)

Like(text, pattern) == LikeFrom(pattern, 1, text, 1)

\* search_chats_by_query(query, limit): WHERE user_query LIKE '%' + query +
\* '%' ORDER BY timestamp DESC LIMIT limit
search_chats_by_query(table, query, limit) ==
  LET order == OrderDesc([i \in 1..Len(table) |-> table[i].timestamp])
      rows == [p \in 1..Len(table) |-> table[order[p]]]
      Hit(row) == Like(row.user_query, <<"%">> \o query \o <<"%">>)
  IN  Take(SelectSeq(rows, Hit), limit)

\* clear_chat_history: DELETE FROM chat_history
clear_chat_history(table) == <<>>

\* get_chat_count
get_chat_count(table) == Len(table)

(***************************************************************************)
(* Offline similarity search                                               *)
(***************************************************************************)

\* similarity scores in hundredths; the values an embedding comparison may
\* give: below the threshold, at the threshold, in the top wording band
Scores == {20, 30, 70}

\* default of parameter similarity_threshold (0.3)
DefaultThreshold == 30

\* chat.copy() with the similarity_score attached
Scored(chat, score) == [chat |-> chat, similarity_score |-> score]

\* sum(1 for term in query_terms if term in chat_query_lower)
TermMatches(query_terms, chat_query_lower) ==
  Cardinality({ i \in 1..Len(query_terms) : Contains(chat_query_lower, query_terms[i]) })

\* the indices of the chats with at least one query term in their stored
\* query (lines 99-103), in the order of all_chats
FallbackHits(query_terms, all_chats) ==
  SelectSeq([i \in 1..Len(all_chats) |-> i],
            LAMBDA i : TermMatches(query_terms, Lower(all_chats[i].user_query)) > 0)

\* matches / len(query_terms), in hundredths
FallbackScore(query_terms, chat) ==
  (TermMatches(query_terms, Lower(chat.user_query)) * 100) \div Len(query_terms)

\* fallback_text_search with the default threshold applied to its scores
fallback_text_search_thresholded(query, top_k, table) ==
  LET query_terms == Split(Lower(query))
      all_chats == get_all_chats(table, 0)
      hits == SelectSeq(FallbackHits(query_terms, all_chats),
                        LAMBDA i : FallbackScore(query_terms, all_chats[i]) >= DefaultThreshold)
      scored_chats == [h \in 1..Len(hits) |->
                         Scored(all_chats[hits[h]],
                                FallbackScore(query_terms, all_chats[hits[h]]))]
      order == OrderDesc([h \in 1..Len(hits) |-> scored_chats[h].similarity_score])
  IN  Take([p \in 1..Len(hits) |-> scored_chats[order[p]]], top_k)

\* fallback_text_search(query, top_k)
fallback_text_search(query, top_k, table) ==
  LET query_terms == Split(Lower(query))
      all_chats == get_all_chats(table, 0)
      hits == FallbackHits(query_terms, all_chats)
      scored_chats == [h \in 1..Len(hits) |->
                         Scored(all_chats[hits[h]],
                                FallbackScore(query_terms, all_chats[hits[h]]))]
      order == OrderDesc([h \in 1..Len(hits) |-> scored_chats[h].similarity_score])
  IN  Take([p \in 1..Len(hits) |-> scored_chats[order[p]]], top_k)

\* the indices find_similar_chats keeps on the embedding path (lines 66-71)
EmbeddingKept(similarities, top_k, similarity_threshold) ==
  LET top_indices == Take(ArgsortReversed(similarities), top_k)
  IN  SelectSeq(top_indices, LAMBDA idx : similarities[idx] >= similarity_threshold)

\* find_similar_chats on the embedding path, for one vector of similarities
EmbeddingSearch(all_chats, similarities, top_k, similarity_threshold) ==
  LET kept == EmbeddingKept(similarities, top_k, similarity_threshold)
  IN  [p \in 1..Len(kept) |-> Scored(all_chats[kept[p]], similarities[kept[p]])]

\* the score is attached to the entry of all_chats itself
AfterAttach_in_place(all_chats, idx, score) ==
  [all_chats EXCEPT ![idx] = Scored(@, score)]

\* the list all_chats after `chat = all_chats[idx].copy()` and
\* `chat['similarity_score'] = score`: the score goes to the copy
AfterAttach(all_chats, idx, score) == all_chats

\* the list all_chats after the loop has attached a score for each of the
\* indices in hits, from the k-th on
RECURSIVE AfterLoop(_, _, _, _)
AfterLoop(all_chats, hits, scores, k) ==
  IF k > Len(hits)
  THEN all_chats
  ELSE AfterLoop(AfterAttach(all_chats, hits[k], scores[k]), hits, scores, k + 1)

\* find_similar_chats(query, top_k, similarity_threshold): the set of lists it
\* may return, over whether the embedding model loads and encodes and over
\* the similarities it computes
find_similar_chats(query, top_k, similarity_threshold, table) ==
  LET all_chats == get_all_chats(table, 0)
  IN  { fallback_text_search(query, top_k, table) }       \* except ImportError / Exception
      \cup
      ( IF all_chats = <<>>
        THEN { <<>> }
        ELSE { EmbeddingSearch(all_chats, similarities, top_k, similarity_threshold) :
                 similarities \in [1..Len(all_chats) -> Scores] } )

\* format_offline_response(similar_chats, user_query)
format_offline_response(similar_chats, user_query) ==
  IF similar_chats = <<>>
  THEN Msg("offline_no_match")
  ELSE LET best_match == similar_chats[1]
           similarity == best_match.similarity_score
       IN  [ msg |-> "offline_formatted",
             band |-> IF similarity >= 70 THEN "very similar"
                      ELSE IF similarity >= 50 THEN "related"
                      ELSE "somewhat related",
             \* "Previous Question" and "Previous Answer" are the texts of
             \* this record
             quoted |-> best_match.chat.id,
             others |-> Len(similar_chats) - 1 ]

(***************************************************************************)
(* External tool adapters (agri_assistant_tools.py).  A service behaviour  *)
(* says whether the API key is in the environment, what the network does,  *)
(* the HTTP status and the shape of the response body.                     *)
(***************************************************************************)

Svc(key, net, status, body) == [key |-> key, net |-> net, status |-> status, body |-> body]

ServiceBehaviours ==
  { Svc(FALSE, "ok", 200, "full"),        \* the key is not in os.environ
    Svc(TRUE, "timeout", 0, "none"),      \* requests.exceptions.Timeout
    Svc(TRUE, "connection", 0, "none"),   \* requests.exceptions.ConnectionError
    Svc(TRUE, "ok", 401, "none"),
    Svc(TRUE, "ok", 404, "none"),
    Svc(TRUE, "ok", 500, "none"),
    Svc(TRUE, "ok", 200, "notjson"),      \* the body is not JSON
    Svc(TRUE, "ok", 200, "empty"),        \* cod != 200 / no records / no items
    Svc(TRUE, "ok", 200, "partial"),      \* fields missing / no record with a price
    Svc(TRUE, "ok", 200, "full") }

\* what an adapter call does: it returns a text, or an exception leaves it
Returned(name, about) == [raised |-> FALSE, text |-> [msg |-> name, about |-> about]]
Raised(exception) == [raised |-> TRUE, text |-> [msg |-> exception, about |-> <<>>]]

\* get_weather reading os.environ['OPENWEATHER_API_KEY'] before its try block
get_weather_unguarded(location, svc) ==
  IF ~svc.key THEN { Raised("KeyError") }
  ELSE IF svc.net # "ok" THEN { Returned("weather_error", <<>>) }
  ELSE IF svc.status >= 400 THEN { Returned("weather_http_error", <<>>) }
  ELSE { Returned("weather_report", <<>>) }

\* get_weather(location)
get_weather(location, svc) ==
  \* "An error occurred while fetching weather: {e}": the text names the exception
  IF ~svc.key THEN { Returned("weather_error", <<"KeyError">>) }       \* except Exception
  ELSE IF svc.net # "ok" THEN { Returned("weather_error", <<svc.net>>) } \* not an HTTPError: except Exception
  ELSE IF svc.status = 404 THEN { Returned("weather_location_not_found", <<location>>) }
  ELSE IF svc.status = 401 THEN { Returned("weather_invalid_api_key", <<>>) }
  ELSE IF svc.status >= 400 THEN { Returned("weather_http_error", <<>>) }
  ELSE IF svc.body = "notjson" THEN { Returned("weather_error", <<"JSONDecodeError">>) }
  ELSE IF svc.body = "empty" THEN { Returned("weather_no_data", <<location>>) }
  ELSE IF svc.body = "partial" THEN { Returned("weather_error", <<"KeyError">>) } \* or IndexError
  ELSE { Returned("weather_report", <<>>) }

\* line 59: `if modal_price and modal_price != '0'`, with modal_price =
\* record.get('modal_price', 'N/A')
PriceListed(record) ==
  LET modal_price == DictGet(record, "modal_price", JStr("N/A"))
  IN  Truthy(modal_price) /\ modal_price # JStr("0")

RECURSIVE ListPrices(_, _, _)
\* lines 53-61: the loop over data['records'] from record i on; listed holds
\* the indices of the records already written to price_info
ListPrices(records, i, listed) ==
  IF i > Len(records) \/ Len(listed) >= 5       \* if processed_records >= 5: break
  THEN listed
  ELSE IF PriceListed(records[i])
       THEN ListPrices(records, i + 1, Append(listed, i))
       ELSE ListPrices(records, i + 1, listed)

\* lines 51-67: the text get_market_price builds from the records of the
\* service's response
PriceReport(records, crop_name, state_name) ==
  IF records = <<>>
  THEN Returned("price_no_data", <<crop_name, state_name>>)
  ELSE LET listed == ListPrices(records, 1, <<>>)
       IN  IF listed = <<>>
           THEN Returned("price_no_valid_data", <<crop_name, state_name>>)
           ELSE Returned("price_info", <<crop_name, state_name, listed>>)

\* the records of a response body of each shape
BodyRecords(body) ==
  CASE body = "empty" -> <<>>
    [] body = "partial" -> << [market |-> JStr("Shimla"), modal_price |-> JStr("0")] >>
    [] OTHER -> << [market |-> JStr("Shimla"), modal_price |-> JStr("2500")] >>

\* get_market_price(crop_name, state_name)
get_market_price(crop_name, state_name, svc) ==
  IF ~svc.key THEN { Returned("price_error", <<>>) }
  ELSE IF state_name.t # "str" \/ crop_name.t # "str"
  THEN { Returned("price_error", <<>>) }                               \* AttributeError on .title()
  ELSE IF svc.net # "ok" THEN { Returned("price_network_issue", <<>>) }
  ELSE IF svc.status >= 400 THEN { Returned("price_network_issue", <<>>) }
  ELSE IF svc.body = "notjson"
  THEN { Returned("price_network_issue", <<>>),                        \* requests' JSONDecodeError
         Returned("price_error", <<>>) }                               \* ValueError (older requests)
  ELSE { PriceReport(BodyRecords(svc.body), crop_name, state_name) }

\* google_search(query)
google_search(query, svc) ==
  IF ~svc.key THEN { Returned("search_error", <<>>) }
  ELSE IF svc.net # "ok" \/ svc.status >= 400 THEN { Returned("search_error", <<>>) }
  ELSE IF svc.body = "notjson" THEN { Returned("search_error", <<>>) }
  ELSE IF svc.body = "empty" THEN { Returned("search_no_results", <<>>) }
  ELSE IF svc.body = "partial" THEN { Returned("search_error", <<>>) }
  ELSE { Returned("search_results", <<>>) }

\* the texts by which an adapter reports that it failed or found nothing
AdapterFailureTexts ==
  { "weather_error", "weather_location_not_found", "weather_invalid_api_key",
    "weather_http_error", "weather_no_data",
    "price_error", "price_network_issue", "price_no_data", "price_no_valid_data",
    "search_error", "search_no_results" }

(***************************************************************************)
(* get_ai_response                                                         *)
(***************************************************************************)

\* no route decision was obtained
NoToolCall == [t |-> "unset"]

\* no model was asked
NoReply == [kind |-> "none"]

\* What one run of get_ai_response did so far: the external calls in order,
\* the validator's verdict, what the connectivity probes said, what the router model and the answer
\* model did, the arguments and results of the offline search (the id and
\* score of each match) and of the adapter.
NoTrace ==
  [ calls |-> <<>>,
    is_valid |-> TRUE,
    p_validator |-> "skipped",
    p_response |-> "skipped",
    router_reply |-> NoReply,
    answer_reply |-> NoReply,
    top_k |-> 0,
    similar_chats |-> <<>>,
    tool_call |-> NoToolCall,
    adapter_args |-> <<>>,
    adapter_text |-> NoText,
    answer_context |-> NoText ]

Called(T, fn) == [T EXCEPT !.calls = Append(@, fn)]

\* `return response, tool, context_data`
Return(T, response, tool, context_data) ==
  T @@ [ outcome |-> "return", error |-> "",
         response |-> response, tool |-> tool, context_data |-> context_data ]

\* an exception leaves get_ai_response
Raise(T, exception) ==
  T @@ [ outcome |-> "raise", error |-> exception,
         response |-> NoText, tool |-> "", context_data |-> None ]

RouterBehaviours ==
  { LLMThrows(TRUE), LLMThrows(FALSE),
    LLMText(FALSE, NotJson),
    LLMText(TRUE, JObj([tool |-> JStr("weather"), location |-> JStr("Dehradun")])) }
  \cup
  { LLMText(FALSE, tool_call) : tool_call \in
      { JList, JNull, JStr("weather"), JNum(1),
        JObj(<<>>),
        JObj([tool |-> JNull]),
        JObj([tool |-> JStr("calculator")]),
        JObj([tool |-> JStr("weather")]),
        JObj([tool |-> JStr("weather"), location |-> JStr("Dehradun")]),
        JObj([tool |-> JStr("weather"), location |-> JStr("")]),
        JObj([tool |-> JStr("weather"), location |-> JNull]),
        JObj([tool |-> JStr("market_price")]),
        JObj([tool |-> JStr("market_price"), crop |-> JStr("wheat")]),
        JObj([tool |-> JStr("market_price"), state |-> JStr("Punjab")]),
        JObj([tool |-> JStr("market_price"), crop |-> JStr("wheat"), state |-> JStr("Punjab")]),
        JObj([tool |-> JStr("market_price"), crop |-> JStr(""), state |-> JStr("Punjab")]),
        JObj([tool |-> JStr("market_price"), crop |-> JStr("wheat"), state |-> JNull]),
        JObj([tool |-> JStr("general_search")]),
        JObj([tool |-> JStr("general_search"), query |-> JStr("how to grow rice")]),
        JObj([tool |-> JStr("none")]),
        JObj([tool |-> JStr("none"), reply |-> JStr("Hello!")]) } }

\* the answer model raises, or returns its text
AnswerBehaviours == { LLMThrows(FALSE), LLMText(FALSE, NotJson) }

\* the id and the score of each match of a search
Matches(similar_chats) ==
  [i \in 1..Len(similar_chats) |->
     [id |-> similar_chats[i].chat.id, similarity_score |-> similar_chats[i].similarity_score]]

\* the offline branch reading similar_chats[0] before it tests the list
OfflineBranch_index_first(query, table, T) ==
  { LET T1 == [Called(T, "find_similar_chats") EXCEPT
                 !.top_k = 3, !.similar_chats = Matches(similar_chats)]
    IN  IF similar_chats # <<>>
        THEN Return(T1, format_offline_response(similar_chats, query), "offline_search", None)
        ELSE Raise(T1, "IndexError")
    : similar_chats \in find_similar_chats(query, 3, DefaultThreshold, table) }

\* lines 347-357: the offline branch
OfflineBranch(query, table, T) ==
  { LET T1 == [Called(T, "find_similar_chats") EXCEPT
                 !.top_k = 3, !.similar_chats = Matches(similar_chats)]
    IN  IF similar_chats # <<>>
        THEN Return(T1, format_offline_response(similar_chats, query), "offline_search", None)
        ELSE Return(T1, Msg("offline_no_match"), "offline_search", None)
    : similar_chats \in find_similar_chats(query, 3, DefaultThreshold, table) }

\* the error message of the place that failed, without the offline search
OfflineFallback_error_only(query, table, T, error_message) ==
  { Return(T, error_message, "error", None) }

\* the offline search as fallback, ending like the offline branch when
\* nothing matches
OfflineFallback_offline_message(query, table, T, error_message) ==
  { LET T1 == [Called(T, "find_similar_chats") EXCEPT
                 !.top_k = 1, !.similar_chats = Matches(similar_chats)]
    IN  Return(T1, format_offline_response(similar_chats, query),
               IF similar_chats # <<>> THEN "offline_fallback" ELSE "offline_search", None)
    : similar_chats \in find_similar_chats(query, 1, DefaultThreshold, table) }

\* lines 375-378, 394-400, 446-449: "try offline search as fallback", then
\* the error message of the place that failed
OfflineFallback(query, table, T, error_message) ==
  { LET T1 == [Called(T, "find_similar_chats") EXCEPT
                 !.top_k = 1, !.similar_chats = Matches(similar_chats)]
    IN  IF similar_chats # <<>>
        THEN Return(T1, format_offline_response(similar_chats, query), "offline_fallback", None)
        ELSE Return(T1, error_message, "error", None)
    : similar_chats \in find_similar_chats(query, 1, DefaultThreshold, table) }

\* Step 3 returning context_data also when the answer model fails
GenerateAnswer_keeps_context(query, table, T, context, tool_name, context_data) ==
  { LET T1 == [Called(T, "answer_model") EXCEPT
                 !.answer_context = context, !.answer_reply = llm]
    IN  IF llm.kind = "throws"
        THEN Return(T1, Msg("trouble_formulating"), "error", context_data)
        ELSE Return(T1, [msg |-> "answer", from_context |-> context.msg],
                    tool_name, context_data)
    : llm \in AnswerBehaviours }

\* lines 438-449, Step 3: the final answer from the tool's context
GenerateAnswer(query, table, T, context, tool_name, context_data) ==
  IF Format(answer_prompt_template, [query |-> query, context |-> context]) # "ok"
  THEN OfflineFallback(query, table, T, Msg("trouble_formulating"))
  ELSE UNION {
         LET T1 == [Called(T, "answer_model") EXCEPT
                      !.answer_context = context, !.answer_reply = llm]
         IN  IF llm.kind = "throws"
             THEN OfflineFallback(query, table, T1, Msg("trouble_formulating"))
             ELSE { Return(T1, [msg |-> "answer", from_context |-> context.msg],
                           tool_name, context_data) }
         : llm \in AnswerBehaviours }

\* one adapter call, then Step 3 only when the adapter's text reports no
\* failure; otherwise the offline search as fallback
CallTool_fallback_on_failure(query, table, T, fn, args, results, tool_name, context_data) ==
  UNION {
    LET T1 == [Called(T, fn) EXCEPT !.adapter_args = args, !.adapter_text = r.text]
    IN  IF r.raised
        THEN { Raise(T1, r.text.msg) }
        ELSE IF r.text.msg \in AdapterFailureTexts
        THEN OfflineFallback(query, table, T1, Msg("trouble_formulating"))
        ELSE GenerateAnswer(query, table, T1, r.text, tool_name, context_data)
    : r \in results }

\* one adapter call (Step 2), then Step 3; an exception leaving the adapter
\* leaves get_ai_response
CallTool(query, table, T, fn, args, results, tool_name, context_data) ==
  UNION {
    LET T1 == [Called(T, fn) EXCEPT !.adapter_args = args, !.adapter_text = r.text]
    IN  IF r.raised
        THEN { Raise(T1, r.text.msg) }
        ELSE GenerateAnswer(query, table, T1, r.text, tool_name, context_data)
    : r \in results }

\* a required parameter is missing: the offline search as fallback
MissingParameter_via_fallback(query, table, T, message) ==
  OfflineFallback(query, table, T, message)

\* lines 406-407, 416-417, 425-426: a required parameter is missing from the
\* route decision
MissingParameter(query, table, T, message) ==
  { Return(T, message, "error", None) }

\* lines 402-436: tool_name = tool_call.get("tool") and the dispatch on it
ToolDispatch(query, table, T0, tool_call) ==
  LET T == [T0 EXCEPT !.tool_call = tool_call] IN
  IF tool_call.t # "obj"
  THEN { Raise(T, "AttributeError") }          \* no .get on a list, str, number, None
  ELSE
  LET args == tool_call.o
      tool_name == DictGet(args, "tool", JNull)
  IN  IF tool_name = JStr("weather")
      THEN IF "location" \notin DOMAIN args
           THEN MissingParameter(query, table, T, Msg("need_location"))
           ELSE CallTool(query, table, T, "get_weather", <<args["location"]>>,
                         UNION { get_weather(args["location"], svc) : svc \in ServiceBehaviours },
                         "weather",
                         [tool |-> tool_name, location |-> args["location"]])
      ELSE IF tool_name = JStr("market_price")
      THEN IF "crop" \notin DOMAIN args \/ "state" \notin DOMAIN args
           THEN MissingParameter(query, table, T, Msg("need_crop_and_state"))
           ELSE CallTool(query, table, T, "get_market_price", <<args["crop"], args["state"]>>,
                         UNION { get_market_price(args["crop"], args["state"], svc) :
                                   svc \in ServiceBehaviours },
                         "market_price",
                         [tool |-> tool_name, crop |-> args["crop"], state |-> args["state"]])
      ELSE IF tool_name = JStr("general_search")
      THEN IF "query" \notin DOMAIN args
           THEN MissingParameter(query, table, T, Msg("need_search_query"))
           ELSE CallTool(query, table, T, "google_search", <<args["query"]>>,
                         UNION { google_search(args["query"], svc) : svc \in ServiceBehaviours },
                         "general_search",
                         [tool |-> tool_name, query |-> args["query"]])
      ELSE IF tool_name = JStr("none")
      THEN { Return(T, [msg |-> "reply",
                        value |-> DictGet(args, "reply", JStr("Hello! How can I help?"))],
                    "none", None) }
      ELSE { Return(T, Msg("no_tool"), "error", None) }

\* lines 363-449: router_model.generate_content(prompt) behaves as llm; its
\* text is parsed, then Steps 2 and 3
AskRouter(query, table, T, llm) ==
  LET T1 == [Called(T, "router_model") EXCEPT !.router_reply = llm]
  IN  IF llm.kind = "throws"
      THEN OfflineFallback(query, table, T1,
             IF llm.apikey THEN Msg("api_key_error") ELSE Msg("internal_error"))
      ELSE IF llm.fence \/ llm.inner.t = "invalid"
      THEN \* json.loads raises JSONDecodeError (a fence is not JSON)
           OfflineFallback(query, table, T1, Msg("invalid_router_response"))
      ELSE ToolDispatch(query, table, T1, llm.inner)

\* lines 359-400, Step 1: format the router prompt, ask the router model,
\* parse its text; then Steps 2 and 3
RouteQuery(query, table, T) ==
  IF Format(router_prompt, [query |-> query]) # "ok"
  THEN \* KeyError: `except Exception`; its text holds no "API key"
       OfflineFallback(query, table, T, Msg("internal_error"))
  ELSE UNION { AskRouter(query, table, T, llm) : llm \in RouterBehaviours }

\* line 346 without the probe: `if use_offline:`
OfflineCheck_flag_only(query, use_offline, table, T) ==
  IF use_offline
  THEN OfflineBranch(query, table, T)
  ELSE UNION {
         RouteQuery(query, table,
                    [Called(T, "is_online") EXCEPT
                       !.p_response = IF online THEN "online" ELSE "offline"])
         : online \in BOOLEAN }

\* line 346: `if use_offline or not connectivity_check.is_online()`
OfflineCheck(query, use_offline, table, T) ==
  IF use_offline
  THEN OfflineBranch(query, table, T)
  ELSE UNION {
         LET T1 == [Called(T, "is_online") EXCEPT
                      !.p_response = IF online THEN "online" ELSE "offline"]
         IN  IF ~online
             THEN OfflineBranch(query, table, T1)
             ELSE RouteQuery(query, table, T1)
         : online \in BOOLEAN }

\* get_ai_response looking into the chat log before it rejects a query
get_ai_response_reject_after_search(query, use_offline, table) ==
  UNION {
    LET T == [NoTrace EXCEPT !.calls = v.calls, !.p_validator = v.p_validator,
                             !.is_valid = v.valid]
    IN  IF ~v.valid
        THEN OfflineFallback(query, table, T, v.message)
        ELSE OfflineCheck(query, use_offline, table, T)
    : v \in validate_agriculture_query(query) }

\* get_ai_response(query, use_offline): the set of its possible outcomes
get_ai_response(query, use_offline, table) ==
  UNION {
    LET T == [NoTrace EXCEPT !.calls = v.calls, !.p_validator = v.p_validator,
                             !.is_valid = v.valid]
    IN  IF ~v.valid
        THEN { Return(T, v.message, "validation", None) }
        ELSE OfflineCheck(query, use_offline, table, T)
    : v \in validate_agriculture_query(query) }

(***************************************************************************)
(* The page script: one action per user interaction.  The list of          *)
(* displayed messages (st.session_state.messages) is presentation state    *)
(* that no operation below reads; it is not part of the model.             *)
(***************************************************************************)

\* no prompt has been submitted yet
NoRequest ==
  Return(NoTrace, NoText, "", None)
    @@ [n |-> 0, prompt |-> <<>>, p_caller |-> "skipped", use_offline |-> FALSE]

Init ==
  /\ chat_history = <<>>      \* init_database: CREATE TABLE IF NOT EXISTS
  /\ sqlite_sequence = 0
  /\ clock = 0
  /\ last = NoRequest

\* whether sqlite3 can bind the response to the TEXT NOT NULL column
SqliteAccepts(response) ==
  response.msg = "reply" => response.value.t \notin {"null", "list", "obj"}

\* lines 655-760 saving only the answers that are not validation rejections
ProcessPrompt_skip_rejected(prompt, p_caller, now, result) ==
  /\ last' = result @@ [ n |-> last.n + 1, prompt |-> prompt, p_caller |-> p_caller,
                         use_offline |-> p_caller # "online" ]
  /\ IF result.outcome = "return" /\ result.tool # "validation"
     THEN /\ chat_history' = save_chat(chat_history, sqlite_sequence, now, prompt,
                                       result.response, result.tool, result.context_data)
          /\ sqlite_sequence' = sqlite_sequence + 1
          /\ clock' = now
     ELSE UNCHANGED <<chat_history, sqlite_sequence, clock>>

\* lines 655-760: the response to a prompt is computed, shown and saved.
\* p_caller is what the probe of line 659 said ("skipped": the force-offline
\* box is ticked and the probe is not taken); now is datetime.now() in
\* save_chat.
ProcessPrompt(prompt, p_caller, now, result) ==
  /\ last' = result @@ [ n |-> last.n + 1, prompt |-> prompt, p_caller |-> p_caller,
                         use_offline |-> p_caller # "online" ]
  /\ IF result.outcome = "return" /\ SqliteAccepts(result.response)
     THEN /\ chat_history' = save_chat(chat_history, sqlite_sequence, now, prompt,
                                       result.response, result.tool, result.context_data)
          /\ sqlite_sequence' = sqlite_sequence + 1
          /\ clock' = now
     ELSE \* an exception from get_ai_response ends the script run; one from
          \* save_chat is caught and printed
          UNCHANGED <<chat_history, sqlite_sequence, clock>>

\* lines 634-760: a prompt typed into st.chat_input is processed
SubmitPrompt ==
  /\ last.n < MaxRequests
  /\ \E prompt \in Queries, p_caller \in {"skipped", "online", "offline"} :
       \E result \in get_ai_response(prompt, p_caller # "online", chat_history) :
         \* one user's prompts follow each other: each save reads a later time
         ProcessPrompt(prompt, p_caller, clock + 1, result)

\* lines 476-480: the "Clear history" button
ClearHistory ==
  /\ chat_history' = clear_chat_history(chat_history)
  /\ UNCHANGED <<sqlite_sequence, clock, last>>

Next == SubmitPrompt \/ ClearHistory

Spec == Init /\ [][Next]_vars

(***************************************************************************)
(* The routing, tool and answer steps on their own (lines 363-449): the    *)
(* code from router_model.generate_content on, applied to every behaviour  *)
(* of the router model, of the services behind the adapters and of the     *)
(* answer model, over a chat log that is empty or holds one earlier chat.  *)
(***************************************************************************)

\* the chat logs the steps are applied over
DispatchLogs ==
  { <<>>,
    save_chat(<<>>, 0, 1, QRice, Msg("offline_no_match"), "offline_search", None) }

InitDispatch ==
  /\ chat_history \in DispatchLogs
  /\ sqlite_sequence = Len(chat_history)
  /\ clock = Len(chat_history)
  /\ last = NoRequest

\* lines 363-449 applied to one query and one behaviour of the router model
RouteAndAnswer ==
  /\ last.n = 0
  /\ \E query \in Queries, llm \in RouterBehaviours :
       \E result \in AskRouter(query, chat_history, NoTrace, llm) :
         last' = result @@ [ n |-> 1, prompt |-> query, p_caller |-> "online",
                             use_offline |-> FALSE ]
  /\ UNCHANGED <<chat_history, sqlite_sequence, clock>>

NextDispatch == RouteAndAnswer

SpecDispatch == InitDispatch /\ [][NextDispatch]_vars

(***************************************************************************)
(* The adapters on their own: each of get_weather, get_market_price and    *)
(* google_search applied to its arguments under every behaviour of the     *)
(* service behind it.  Here `last` is the latest adapter call: the         *)
(* function, its arguments, what the service did and what was returned.    *)
(***************************************************************************)

\* the argument values the dispatch can pass to an adapter
AdapterArgs == { JStr("Dehradun"), JStr(""), JNull }

\* no adapter was called yet
NoCall ==
  [ n |-> 0, fn |-> "", args |-> <<>>, svc |-> Svc(TRUE, "ok", 200, "full"),
    result |-> Returned("", <<>>) ]

\* one adapter call and its result
AdapterCall(fn, args, svc, result) ==
  [ n |-> 1, fn |-> fn, args |-> args, svc |-> svc, result |-> result ]

InitAdapters ==
  /\ chat_history = <<>>
  /\ sqlite_sequence = 0
  /\ clock = 0
  /\ last = NoCall

\* get_weather(location) is called
CallWeather ==
  /\ last.n = 0
  /\ \E location \in AdapterArgs, svc \in ServiceBehaviours :
       \E r \in get_weather(location, svc) :
         last' = AdapterCall("get_weather", <<location>>, svc, r)
  /\ UNCHANGED <<chat_history, sqlite_sequence, clock>>

\* google_search(query) is called
CallSearch ==
  /\ last.n = 0
  /\ \E query \in AdapterArgs, svc \in ServiceBehaviours :
       \E r \in google_search(query, svc) :
         last' = AdapterCall("google_search", <<query>>, svc, r)
  /\ UNCHANGED <<chat_history, sqlite_sequence, clock>>

\* records the market-price service returns before the model stops adding
MaxRecords == 6

\* the modal_price of a record: a price, "0", or no such field
PriceRecords ==
  { [market |-> JStr("Shimla"), modal_price |-> JStr("2500")],
    [market |-> JStr("Shimla"), modal_price |-> JStr("0")],
    [market |-> JStr("Shimla")] }

\* get_market_price(crop_name, state_name) is called with every failure of
\* the service
CallMarketPrice ==
  /\ last.n = 0
  /\ \E crop_name \in AdapterArgs, svc \in ServiceBehaviours :
       \E r \in get_market_price(crop_name, JStr("Punjab"), svc) :
         last' = AdapterCall("get_market_price", <<crop_name, JStr("Punjab")>>, svc, r)
           @@ [records |-> BodyRecords(svc.body)]
  /\ UNCHANGED <<chat_history, sqlite_sequence, clock>>

\* get_market_price("wheat", "Punjab") is called and the service answers
\* with a list of records
CallMarketPriceRecords ==
  /\ last.n = 0
  /\ \E len \in 0..MaxRecords :
       \E records \in [1..len -> PriceRecords] :
         last' = AdapterCall("get_market_price", <<JStr("wheat"), JStr("Punjab")>>,
                             Svc(TRUE, "ok", 200, "records"),
                             PriceReport(records, JStr("wheat"), JStr("Punjab")))
                   @@ [records |-> records]
  /\ UNCHANGED <<chat_history, sqlite_sequence, clock>>

NextAdapters == CallWeather \/ CallSearch \/ CallMarketPrice \/ CallMarketPriceRecords

SpecAdapters == InitAdapters /\ [][NextAdapters]_vars

(***************************************************************************)
(* The domain validator on its own: validate_agriculture_query applied to  *)
(* a query under every answer of the probe and every behaviour of the      *)
(* validation model.  Here `last` is the latest call of the validator.     *)
(***************************************************************************)

\* a query of four words with no keyword of either list; a greeting with
\* blanks around it; an off-domain query of four words
QJoke == <<"t","e","l","l"," ","m","e"," ","a"," ","j","o","k","e">>
QPadded == <<" ","H","i"," ">>
QMovie == <<"b","e","s","t"," ","m","o","v","i","e"," ","o","f"," ","a","l","l">>

ValidatorQueries == Queries \cup {QJoke, QPadded, QMovie}

InitValidator ==
  /\ chat_history = <<>>
  /\ sqlite_sequence = 0
  /\ clock = 0
  /\ last = [ n |-> 0, prompt |-> <<>>, online |-> FALSE, reply |-> NoReply,
              result |-> ValidatorResult(TRUE, NoText, <<>>, "skipped") ]

\* validate_agriculture_query(query) is called
Validate ==
  /\ last.n = 0
  /\ \E query \in ValidatorQueries, online \in BOOLEAN, llm \in ValidationBehaviours :
       last' = [ n |-> 1, prompt |-> query, online |-> online, reply |-> llm,
                 result |-> ValidateUnder(query, online, llm) ]
  /\ UNCHANGED <<chat_history, sqlite_sequence, clock>>

NextValidator == Validate

SpecValidator == InitValidator /\ [][NextValidator]_vars

(***************************************************************************)
(* The chat log store on its own: save_chat, get_all_chats,                *)
(* search_chats_by_query and clear_chat_history called in any order.  The  *)
(* timestamp of a save is whatever datetime.now() reads: the local wall    *)
(* clock, which can read the same instant twice and can step back.  Here   *)
(* `last` is the latest operation and what it returned.                    *)
(***************************************************************************)

MaxSaves == 3
MaxClock == 2

\* stored queries and search strings
QAxb == <<"a","x","b">>
QA_b == <<"a","_","b">>
QRICE == <<"R","I","C","E">>
QUnderscore == <<"_">>
QPercent == <<"%">>

StoreQueries == {QAxb, QA_b, QRICE}
SearchStrings == {QA_b, QUnderscore, QPercent, QRice, QRICE}
SearchLimits == {1, 5}

NoOperation == [ op |-> "none", query |-> <<>>, limit |-> 0, rows |-> <<>> ]

InitStore ==
  /\ chat_history = <<>>
  /\ sqlite_sequence = 0
  /\ clock = 0
  /\ last = NoOperation

\* save_chat(q, r, t, m) immediately followed by get_all_chats(limit=1)
SaveThenRead ==
  /\ sqlite_sequence < MaxSaves
  /\ \E q \in StoreQueries, now \in 1..MaxClock :
       /\ chat_history' = save_chat(chat_history, sqlite_sequence, now,
                                    q, Msg("answer"), "none", None)
       /\ sqlite_sequence' = sqlite_sequence + 1
       /\ clock' = now
       /\ last' = [ op |-> "save_chat", query |-> q, limit |-> 1,
                    rows |-> get_all_chats(chat_history', 1) ]

\* get_all_chats()
ListChats ==
  /\ last' = [ op |-> "get_all_chats", query |-> <<>>, limit |-> 0,
               rows |-> get_all_chats(chat_history, 0) ]
  /\ UNCHANGED <<chat_history, sqlite_sequence, clock>>

\* search_chats_by_query(s, limit)
SearchChats ==
  /\ \E s \in SearchStrings, limit \in SearchLimits :
       last' = [ op |-> "search_chats_by_query", query |-> s, limit |-> limit,
                 rows |-> search_chats_by_query(chat_history, s, limit) ]
  /\ UNCHANGED <<chat_history, sqlite_sequence, clock>>

\* clear_chat_history()
ClearChats ==
  /\ chat_history' = clear_chat_history(chat_history)
  /\ last' = [ op |-> "clear_chat_history", query |-> <<>>, limit |-> 0,
               rows |-> <<>> ]
  /\ UNCHANGED <<sqlite_sequence, clock>>

NextStore == SaveThenRead \/ ListChats \/ SearchChats \/ ClearChats

SpecStore == InitStore /\ [][NextStore]_vars

(***************************************************************************)
(* Two user sessions on the same chat log.  Every call opens its own       *)
(* connection (sqlite3.connect): the INSERT of save_chat runs inside an    *)
(* implicit transaction that holds the database's write lock from the      *)
(* INSERT to the commit, a second writer waits for the lock, and a read    *)
(* sees committed rows only.  Here `last` holds each session's position in *)
(* save_chat, its uncommitted row, the rows it has committed and the       *)
(* result of its latest read.                                              *)
(***************************************************************************)

Sessions == {1, 2}
MaxSessionSaves == 2

\* what each session asks
SessionQuery(s) == IF s = 1 THEN QRice ELSE QApp

\* an INSERT that does not wait for the write lock
ReservedLockFree_unlocked(writer, s) == TRUE

\* the write lock a writer must find free before its INSERT runs (it waits
\* while another connection holds it)
ReservedLockFree(writer, s) == writer = 0

InitSessions ==
  /\ chat_history = <<>>
  /\ sqlite_sequence = 0
  /\ clock = 0
  /\ last = [ pc |-> [s \in Sessions |-> "idle"],
              stamp |-> [s \in Sessions |-> 0],
              pending |-> [s \in Sessions |-> None],
              saved |-> [s \in Sessions |-> <<>>],
              read |-> [s \in Sessions |-> <<>>],
              count |-> [s \in Sessions |-> 0],
              writer |-> 0 ]

\* save_chat, lines 40-44: connect and take the timestamp
SessionStamp(s) ==
  /\ last.pc[s] = "idle"
  /\ Len(last.saved[s]) < MaxSessionSaves
  /\ clock' = clock + 1
  /\ last' = [last EXCEPT !.pc[s] = "stamped", !.stamp[s] = clock + 1]
  /\ UNCHANGED <<chat_history, sqlite_sequence>>

\* save_chat, lines 46-49: the INSERT takes the write lock and gives the row
\* its id; the row is not yet visible to other connections
SessionInsert(s) ==
  /\ last.pc[s] = "stamped"
  /\ ReservedLockFree(last.writer, s)
  /\ LET table == save_chat(chat_history, sqlite_sequence, last.stamp[s],
                            SessionQuery(s), Msg("answer"), "none", None)
     IN  last' = [last EXCEPT !.pc[s] = "inserted",
                              !.pending[s] = table[Len(table)],
                              !.writer = s]
  /\ UNCHANGED <<chat_history, sqlite_sequence, clock>>

\* save_chat, lines 51-52: commit publishes the row and frees the lock
SessionCommit(s) ==
  /\ last.pc[s] = "inserted"
  /\ chat_history' = Append(chat_history, last.pending[s])
  /\ sqlite_sequence' = IF last.pending[s].id > sqlite_sequence
                        THEN last.pending[s].id ELSE sqlite_sequence
  /\ last' = [last EXCEPT !.pc[s] = "idle",
                          !.pending[s] = None,
                          !.saved[s] = Append(@, last.pending[s]),
                          !.writer = IF @ = s THEN 0 ELSE @]
  /\ UNCHANGED clock

\* get_all_chats() by a session that is between two calls
SessionRead(s) ==
  /\ last.pc[s] = "idle"
  /\ last' = [last EXCEPT !.read[s] = get_all_chats(chat_history, 0)]
  /\ UNCHANGED <<chat_history, sqlite_sequence, clock>>

\* get_chat_count() by a session that is between two calls
SessionCount(s) ==
  /\ last.pc[s] = "idle"
  /\ last' = [last EXCEPT !.count[s] = get_chat_count(chat_history)]
  /\ UNCHANGED <<chat_history, sqlite_sequence, clock>>

NextSessions ==
  \E s \in Sessions :
    \/ SessionStamp(s)
    \/ SessionInsert(s)
    \/ SessionCommit(s)
    \/ SessionRead(s)
    \/ SessionCount(s)

SpecSessions == InitSessions /\ [][NextSessions]_vars

(***************************************************************************)
(* The offline similarity search on its own: find_similar_chats applied to *)
(* every log of up to MaxLog records, on the embedding path under every    *)
(* vector of similarities and on the keyword-fallback path, followed by    *)
(* format_offline_response as in get_ai_response.  Here `last` is the      *)
(* latest search: its inputs, the list all_chats after it, its results and *)
(* the response made of them.                                              *)
(***************************************************************************)

MaxLog == 3

\* a query of four terms, one of which occurs in the stored query "rice"
QRiceInHills == <<"r","i","c","e"," ","c","r","o","p"," ","i","n"," ","h","i","l","l","s">>

LogQueries == {QRice, QApp, QRiceApp}
SimilarQueries == {QRice, QRiceApp, QRiceInHills, <<>>}
TopKs == {1, 3}
Thresholds == {DefaultThreshold, 70}

\* the logs of n records, saved one after the other
RECURSIVE LogsOfLen(_)
LogsOfLen(n) ==
  IF n = 0
  THEN { <<>> }
  ELSE { save_chat(table, n - 1, n, q, Msg("answer"), "none", None) :
           table \in LogsOfLen(n - 1), q \in LogQueries }

SearchLogs == UNION { LogsOfLen(n) : n \in 0..MaxLog }

NoSearch == [ op |-> "none", query |-> <<>>, top_k |-> 0, threshold |-> 0,
              similarities |-> <<>>, all_chats_after |-> <<>>,
              results |-> <<>>, response |-> NoText ]

InitSearch ==
  /\ chat_history \in SearchLogs
  /\ sqlite_sequence = Len(chat_history)
  /\ clock = Len(chat_history)
  /\ last = NoSearch

\* find_similar_chats(query, top_k, similarity_threshold) when the embedding
\* model loads and encodes (lines 38-76)
SearchByEmbedding ==
  /\ last.op = "none"
  /\ \E query \in SimilarQueries, top_k \in TopKs, threshold \in Thresholds :
       LET all_chats == get_all_chats(chat_history, 0)
       IN  \E similarities \in [1..Len(all_chats) -> Scores] :
             LET kept == EmbeddingKept(similarities, top_k, threshold)
                 results == EmbeddingSearch(all_chats, similarities, top_k, threshold)
             IN  last' = [ op |-> "embedding", query |-> query, top_k |-> top_k,
                           threshold |-> threshold, similarities |-> similarities,
                           all_chats_after |->
                             AfterLoop(all_chats, kept,
                                       [k \in 1..Len(kept) |-> similarities[kept[k]]], 1),
                           results |-> results,
                           response |-> format_offline_response(results, query) ]
  /\ UNCHANGED <<chat_history, sqlite_sequence, clock>>

\* find_similar_chats(query, top_k, similarity_threshold) when the embedding
\* model is missing or throws (lines 78-85): fallback_text_search(query, top_k)
SearchByKeywords ==
  /\ last.op = "none"
  /\ \E query \in SimilarQueries, top_k \in TopKs, threshold \in Thresholds :
       LET all_chats == get_all_chats(chat_history, 0)
           query_terms == Split(Lower(query))
           hits == FallbackHits(query_terms, all_chats)
           results == fallback_text_search(query, top_k, chat_history)
       IN  last' = [ op |-> "fallback", query |-> query, top_k |-> top_k,
                     threshold |-> threshold, similarities |-> <<>>,
                     all_chats_after |->
                       AfterLoop(all_chats, hits,
                                 [k \in 1..Len(hits) |->
                                    FallbackScore(query_terms, all_chats[hits[k]])], 1),
                     results |-> results,
                     response |-> format_offline_response(results, query) ]
  /\ UNCHANGED <<chat_history, sqlite_sequence, clock>>

NextSearch == SearchByEmbedding \/ SearchByKeywords

SpecSearch == InitSearch /\ [][NextSearch]_vars

(***************************************************************************)
(* Voice input (voice_handler.py and the recording block of the page).     *)
(* A script run of the page sees the audio the recorder widget holds, the  *)
(* same as in the run before or a new recording.  Here `last` holds the    *)
(* session state of the voice guard and what the latest script run did.    *)
(***************************************************************************)

MaxRuns == 4

NoAudio == [hash |-> 0, short |-> FALSE]

\* recordings: audio_bytes by its md5 hash and whether it is shorter than a
\* WAV header
Recordings == { [hash |-> h, short |-> b] : h \in {1, 2}, b \in BOOLEAN }

\* what happens inside transcribe_audio_bytes: the temporary file cannot be
\* written, nothing is recognised, English or Hindi is recognised
AudioBehaviours == {"oserror", "unrecognised", "english", "hindi"}

\* transcribe_audio_bytes(audio_bytes): the tuple it returns
transcribe_audio_bytes(audio_bytes, behaviour) ==
  IF audio_bytes.short
  THEN <<JNull, JNull>>                                   \* line 203
  ELSE IF behaviour = "oserror"
  THEN <<JNull, JNull>>                                   \* line 239
  ELSE IF behaviour = "unrecognised"
  THEN <<JNull, JNull, JNull>>                            \* line 222
  ELSE IF behaviour = "hindi"
  THEN <<JStr("chawal"), JStr("rice"), JStr("hi")>>       \* lines 225-231
  ELSE <<JStr("rice"), JStr("rice"), JStr("en")>>

NoVoice ==
  [ runs |-> 0, audio |-> NoAudio,
    processing_voice |-> FALSE,          \* st.session_state.processing_voice
    last_processed_audio_hash |-> 0,     \* 0: not in st.session_state
    voice_prompt |-> FALSE,              \* a transcribed prompt is pending
    transcribed |-> FALSE,               \* this run called transcribe_audio_bytes
    transcript |-> <<>>,                 \* what the call returned
    outcome |-> "none" ]

InitVoice ==
  /\ chat_history = <<>>
  /\ sqlite_sequence = 0
  /\ clock = 0
  /\ last = NoVoice

\* the guard of lines 547-549
Eligible(audio_bytes, session) ==
  /\ audio_bytes # NoAudio
  /\ audio_bytes.hash # session.last_processed_audio_hash
  /\ ~session.voice_prompt
  /\ ~session.processing_voice

\* lines 540-589: a script run transcribes the recording it finds
TranscribeRun ==
  /\ last.runs < MaxRuns
  /\ \E audio_bytes \in {last.audio} \cup Recordings, behaviour \in AudioBehaviours :
       /\ Eligible(audio_bytes, last)
       /\ LET result == transcribe_audio_bytes(audio_bytes, behaviour)
              started == [last EXCEPT !.runs = @ + 1, !.audio = audio_bytes,
                                      !.processing_voice = TRUE,
                                      !.last_processed_audio_hash = audio_bytes.hash,
                                      !.transcribed = TRUE, !.transcript = result]
          IN  last' =
                IF Len(result) # 3
                THEN \* line 563: the unpacking into three names raises
                     [started EXCEPT !.outcome = "ValueError"]
                ELSE IF Truthy(result[1]) /\ Truthy(result[2])
                THEN \* lines 565-579, ending in st.rerun()
                     [started EXCEPT !.voice_prompt = TRUE,
                                     !.processing_voice = FALSE,
                                     !.outcome = "rerun"]
                ELSE \* lines 580-589
                     [started EXCEPT !.processing_voice = FALSE,
                                     !.last_processed_audio_hash = 0,
                                     !.outcome = "not transcribed"]
  /\ UNCHANGED <<chat_history, sqlite_sequence, clock>>

\* lines 610-760: a script run finds the pending voice prompt, clears the
\* voice entries of the session state, answers the prompt and saves it
VoicePromptRun ==
  /\ last.runs < MaxRuns
  /\ last.voice_prompt
  /\ \E audio_bytes \in {last.audio} \cup Recordings,
        p_caller \in {"skipped", "online", "offline"} :
       \E result \in get_ai_response(QRice, p_caller # "online", chat_history) :
         /\ last' = [last EXCEPT !.runs = @ + 1, !.audio = audio_bytes,
                                 !.voice_prompt = FALSE,
                                 !.processing_voice = FALSE,
                                 !.transcribed = FALSE, !.transcript = <<>>,
                                 !.outcome = result.tool]
         /\ IF result.outcome = "return" /\ SqliteAccepts(result.response)
            THEN /\ chat_history' = save_chat(chat_history, sqlite_sequence, clock + 1,
                                              QRice, result.response, result.tool,
                                              result.context_data)
                 /\ sqlite_sequence' = sqlite_sequence + 1
                 /\ clock' = clock + 1
            ELSE UNCHANGED <<chat_history, sqlite_sequence, clock>>

\* a script run that finds no recording to transcribe and no pending prompt
IdleRun ==
  /\ last.runs < MaxRuns
  /\ ~last.voice_prompt
  /\ \E audio_bytes \in {last.audio} \cup Recordings :
       /\ ~Eligible(audio_bytes, last)
       /\ last' = [last EXCEPT !.runs = @ + 1, !.audio = audio_bytes,
                               !.transcribed = FALSE, !.transcript = <<>>,
                               !.outcome = "idle"]
  /\ UNCHANGED <<chat_history, sqlite_sequence, clock>>

\* lines 457-463: the "New Chat" button
NewChat ==
  /\ last' = [last EXCEPT !.voice_prompt = FALSE, !.last_processed_audio_hash = 0]
  /\ UNCHANGED <<chat_history, sqlite_sequence, clock>>

NextVoice == TranscribeRun \/ VoicePromptRun \/ IdleRun \/ NewChat

SpecVoice == InitVoice /\ [][NextVoice]_vars

(***************************************************************************)
(* Properties                                                              *)
(***************************************************************************)

\* the latest run of get_ai_response called fn
Made(fn) == \E i \in DOMAIN last.calls : last.calls[i] = fn

\* how many times the latest run called fn
Times(fn) == Cardinality({i \in DOMAIN last.calls : last.calls[i] = fn})

OnlineSteps == {"router_model", "get_weather", "get_market_price", "google_search", "answer_model"}

\* offline is in effect for the latest request: use_offline is True, or the
\* probe of line 346 said offline
OfflineInEffect ==
  /\ last.n > 0
  /\ last.use_offline \/ last.p_response = "offline"

\* C1: with offline in effect, get_ai_response calls neither the router
\* model, nor get_weather, get_market_price or google_search, nor the answer
\* model; a query that passed validation is answered by one call of
\* find_similar_chats (top_k = 3) with the tool "offline_search".
C1_OfflineCallsNoOnlineStep ==
  OfflineInEffect =>
    /\ \A fn \in OnlineSteps : ~Made(fn)
    /\ last.outcome = "return"
    /\ last.tool # "validation" =>
         /\ Times("find_similar_chats") = 1
         /\ last.calls[Len(last.calls)] = "find_similar_chats"
         /\ last.top_k = 3
         /\ last.tool = "offline_search"

\* the caller's probe said online, the probe of line 346 said offline, and
\* the query was answered from the log
C1_Witness ==
  /\ OfflineInEffect
  /\ ~last.use_offline
  /\ last.p_response = "offline"
  /\ last.tool = "offline_search"
  /\ last.similar_chats # <<>>

\* C2: every submitted prompt ends with exactly one record appended to the
\* chat log, holding the prompt, the response, the tool and the context of
\* that request, whatever get_ai_response produced; the earlier records are
\* untouched.
C2_EveryPromptPersisted ==
  [][ last'.n = last.n + 1 =>
        /\ Len(chat_history') = Len(chat_history) + 1
        /\ SubSeq(chat_history', 1, Len(chat_history)) = chat_history
        /\ LET row == chat_history'[Len(chat_history')]
           IN  /\ row.user_query = last'.prompt
               /\ row.assistant_response = last'.response
               /\ row.tool_used = last'.tool
               /\ row.context_data = last'.context_data
               /\ row.id = sqlite_sequence'
    ]_vars

\* two prompts were processed, the first rejected by the validator, the
\* second ended in an error message, and the log holds a record of each
C2_Witness ==
  /\ last.n = 2
  /\ Len(chat_history) = 2
  /\ chat_history[1].tool_used = "validation"
  /\ chat_history[2].tool_used = "error"
  /\ chat_history[2].assistant_response = last.response

\* the router model's text parsed to a JSON object: a route decision
RouteDecided == last.n > 0 /\ last.tool_call.t = "obj"

\* the route decision names this tool
RoutedTo(tool_name) ==
  RouteDecided /\ DictGet(last.tool_call.o, "tool", JNull) = JStr(tool_name)

C4_MissingCropOrStateAsksForBoth ==
  ( /\ RoutedTo("market_price")
    /\ "crop" \notin DOMAIN last.tool_call.o \/ "state" \notin DOMAIN last.tool_call.o )
  => /\ last.outcome = "return"
     /\ last.response = Msg("need_crop_and_state")
     /\ last.tool = "error"
     /\ last.context_data = None
     /\ last.calls = <<"router_model">>

\* the route decision was market_price with a crop and no state, over a log
\* that holds a chat the offline search could have matched
C4_Witness ==
  /\ RoutedTo("market_price")
  /\ "crop" \in DOMAIN last.tool_call.o
  /\ "state" \notin DOMAIN last.tool_call.o
  /\ last.response = Msg("need_crop_and_state")
  /\ chat_history # <<>>

LanguageModels == {"validation_model", "router_model", "answer_model"}

\* the latest request was a greeting
GreetingAsked == last.n > 0 /\ IsGreeting(last.prompt)

\* C6 as stated: a query that equals or starts with a greeting phrase is
\* answered directly with a conversational reply and no language model
\* (validator, router, answer) is called for it, online and offline.
C6_GreetingAnsweredDirectly ==
  GreetingAsked =>
    /\ last.tool = "none"
    /\ last.response.msg = "reply"
    /\ \A fn \in LanguageModels : ~Made(fn)

\* C6 as amended: a query that equals or starts with a greeting phrase is
\* accepted by the domain validator without a call of the validation model
\* and without the validator's connectivity probe, online and offline; it
\* is then handled like any accepted query, so with offline in effect it is
\* answered from the offline search.
C6_GreetingSkipsValidatorModel ==
  GreetingAsked =>
    /\ ~Made("validation_model")
    /\ last.p_validator = "skipped"
    /\ last.tool # "validation"
    /\ OfflineInEffect =>
         /\ last.calls[Len(last.calls)] = "find_similar_chats"
         /\ last.tool = "offline_search"

\* a greeting was asked with the force-offline box ticked and answered from
\* the log
C6_Witness ==
  /\ GreetingAsked
  /\ last.p_caller = "skipped"
  /\ last.calls = <<"find_similar_chats">>
  /\ last.response.msg = "offline_formatted"

\* the routing step failed: the router call raised or its text is not JSON
RoutingFailed ==
  /\ last.n > 0
  /\ \/ last.router_reply.kind = "throws"
     \/ /\ last.router_reply.kind = "text"
        /\ last.router_reply.fence \/ last.router_reply.inner.t = "invalid"

\* the synthesis step failed: the answer-model call raised
SynthesisFailed == last.n > 0 /\ last.answer_reply.kind = "throws"

\* C7: when the routing step fails (the router call raises or its output
\* does not parse) or the synthesis step fails (the answer-model call
\* raises), get_ai_response runs the offline similarity search on the query
\* before it produces its response, and when there is a match the response
\* is the formatted historical answer, not an error message.
C7_FailureRunsOfflineSearch ==
  (RoutingFailed \/ SynthesisFailed) =>
    /\ last.outcome = "return"
    /\ Times("find_similar_chats") = 1
    /\ last.calls[Len(last.calls)] = "find_similar_chats"
    /\ last.top_k = 1
    /\ last.similar_chats # <<>> =>
         /\ last.response.msg = "offline_formatted"
         /\ last.response.quoted = last.similar_chats[1].id
         /\ last.tool = "offline_fallback"

\* the answer model raised after an adapter call, and the response is the
\* formatted answer of the chat in the log
C7_Witness ==
  /\ SynthesisFailed
  /\ ~RoutingFailed
  /\ last.similar_chats # <<>>
  /\ last.response.msg = "offline_formatted"

\* the offline similarity search was consulted and found no match
FallbackFoundNothing ==
  last.n > 0 /\ Made("find_similar_chats") /\ last.similar_chats = <<>>

\* the messages of the places that fall back to the offline search
FailureMessages ==
  { Msg("invalid_router_response"), Msg("api_key_error"), Msg("internal_error"),
    Msg("trouble_formulating") }

\* C8 as stated: whenever the offline-fallback path is taken (offline signal,
\* routing failure or synthesis failure) and the search finds no match, the
\* response is the one fixed "cannot help offline" message.
C8_OneMessageFromEveryEntry ==
  FallbackFoundNothing => last.response = Msg("offline_no_match")

\* C8 as amended: when the offline search finds no match, the response is
\* the fixed "cannot help offline" message (tool "offline_search") if the
\* path was entered on an offline signal, and the error message of the step
\* that failed (tool "error") if it was entered on a routing or synthesis
\* failure.
C8_NoMatchMessagePerEntry ==
  FallbackFoundNothing =>
    IF OfflineInEffect
    THEN last.response = Msg("offline_no_match") /\ last.tool = "offline_search"
    ELSE last.response \in FailureMessages /\ last.tool = "error"

\* online, the routing step failed for the second prompt, over a log that
\* held the first prompt's chat; the search matched nothing, and the response
\* is the routing step's error message
C8_Witness ==
  /\ FallbackFoundNothing
  /\ ~OfflineInEffect
  /\ last.n = 2
  /\ Len(chat_history) = 2
  /\ last.response = Msg("internal_error")
  /\ last.tool = "error"

\* the adapter the router selected reported a failure or no usable data
AdapterFailed ==
  /\ last.n > 0
  /\ \E fn \in {"get_weather", "get_market_price", "google_search"} : Made(fn)
  /\ last.adapter_text.msg \in AdapterFailureTexts

\* calls of the three adapters in the latest run
AdapterCalls ==
  Times("get_weather") + Times("get_market_price") + Times("google_search")

C10_AdaptersReturnText ==
  (last.n > 0 /\ AdapterCalls > 0) =>
    /\ last.outcome = "return"
    /\ last.adapter_text # NoText
    /\ last.answer_context = last.adapter_text

\* get_weather was called with a null location and returned its error text,
\* which reached the answer model
C10_Witness ==
  /\ Made("get_weather")
  /\ last.adapter_args = <<JNull>>
  /\ last.adapter_text.msg = "weather_error"
  /\ last.outcome = "return"

\* get_weather was called and the service behind it behaved as described
WeatherCalled == last.n > 0 /\ last.fn = "get_weather"

\* C11: get_weather gives each failure case a message of its own: HTTP 404
\* the location-not-found message, HTTP 401 the invalid-API-key message, a
\* timeout or another network error a network-issue message, and a missing
\* API key a failure text that no other case gives.
C11_WeatherFailuresDistinguished ==
  WeatherCalled =>
    LET text == last.result.text IN
    /\ ~last.result.raised
    /\ (last.svc.key /\ last.svc.net = "ok" /\ last.svc.status = 404)
         => text.msg = "weather_location_not_found"
    /\ (last.svc.key /\ last.svc.net = "ok" /\ last.svc.status = 401)
         => text.msg = "weather_invalid_api_key"
    /\ (last.svc.key /\ last.svc.net # "ok")
         => text.msg = "weather_network_issue"
    /\ ~last.svc.key
         => /\ text.msg # ""
            /\ \A svc \in ServiceBehaviours : svc.key =>
                 \A r \in get_weather(last.args[1], svc) : r.text.msg # text.msg

\* the service answered get_market_price with a list of records
PricesCalled ==
  /\ last.n > 0
  /\ last.fn = "get_market_price"
  /\ last.svc.key /\ last.svc.net = "ok" /\ last.svc.status = 200
  /\ last.svc.body # "notjson"
  /\ last.args[1].t = "str"

\* the record has a price field and its price is strictly positive
ValidPrice(record) ==
  "modal_price" \in DOMAIN record /\ record["modal_price"] = JStr("2500")

\* the indices of the records with a valid price, in service order
ValidIndices(records) ==
  SelectSeq([i \in 1..Len(records) |-> i], LAMBDA i : ValidPrice(records[i]))

\* C12: get_market_price lists only records whose price is strictly
\* positive, the first 5 of them in service order, and returns the "no
\* valid price data" message exactly when the service returned records and
\* none of them has a valid price (price "0" or no price field).
C12_OnlyValidPricesListed ==
  PricesCalled =>
    LET valid == ValidIndices(last.records)
        text == last.result.text
    IN  /\ text.msg = "price_no_valid_data" <=> (last.records # <<>> /\ valid = <<>>)
        /\ text.msg = "price_info" =>
             text.about[3] = SubSeq(valid, 1, IF Len(valid) < 5 THEN Len(valid) ELSE 5)

\* C13: when the validator's connectivity probe reports offline,
\* validate_agriculture_query accepts the query, whatever it is, after that
\* one probe: the validation model is not called and the keyword lists are
\* not applied.
C13_OfflineValidatorAcceptsAll ==
  (last.n > 0 /\ last.p_validator = "offline") =>
    /\ last.calls[1] = "is_online"
    /\ ~Made("validation_model")
    /\ last.tool # "validation"
    /\ \A v \in validate_agriculture_query(last.prompt) :
         v.p_validator = "offline" =>
           v.valid /\ v.message = NoText /\ v.calls = <<"is_online">>

\* a query the keyword lists reject was asked while the validator's probe
\* said offline, and it was answered from the offline search
C13_Witness ==
  /\ last.n > 0
  /\ last.p_validator = "offline"
  /\ ~keyword_based_validation(last.prompt)[1]
  /\ last.tool = "offline_search"

\* the validation model was asked about the latest query
ModelAsked ==
  last.n > 0 /\ "validation_model" \in { last.result.calls[i] : i \in DOMAIN last.result.calls }

\* the model's call raised, or its text is not JSON, or the parsed text
\* holds no true/false verdict under "is_agriculture_related"
NoUsableVerdict ==
  \/ last.reply.kind = "throws"
  \/ last.reply.inner.t # "obj"
  \/ DictGet(last.reply.inner.o, "is_agriculture_related", JNull).t # "bool"

\* the query contains a keyword of the off-domain list
OffDomainKeyword(query) ==
  \E keyword \in non_agri_keywords : Contains(Lower(query), keyword)

\* C14: the validator is permissive whenever classification fails or is
\* ambiguous: if the validation model's call raises, or its output does not
\* parse, or the parsed output holds no usable verdict, and the query
\* matches no off-domain keyword, the query is accepted.
C14_PermissiveWithoutVerdict ==
  (ModelAsked /\ NoUsableVerdict /\ ~OffDomainKeyword(last.prompt))
    => last.result.valid /\ last.result.message = NoText

\* the rejection messages of the validator
RejectionMessages == { Msg("validation_rejected"), Msg("validation_rejected_keywords") }

\* C15: when the domain validator rejects a query, get_ai_response returns
\* the rejection message with tool "validation" and calls neither the router
\* model, nor an adapter, nor the answer model, nor the offline search; the
\* interaction is saved with tool "validation".
C15_RejectionReturnedAndSaved ==
  [][ (last'.n = last.n + 1 /\ ~last'.is_valid) =>
        /\ last'.outcome = "return"
        /\ last'.response \in RejectionMessages
        /\ last'.tool = "validation"
        /\ last'.context_data = None
        /\ \A i \in DOMAIN last'.calls : last'.calls[i] \in {"is_online", "validation_model"}
        /\ Len(chat_history') = Len(chat_history) + 1
        /\ LET row == chat_history'[Len(chat_history')]
           IN  /\ row.user_query = last'.prompt
               /\ row.assistant_response = last'.response
               /\ row.tool_used = "validation"
    ]_vars

\* the validation model rejected a query that holds an agriculture keyword,
\* over a log with an earlier chat the offline search could have matched,
\* and the rejection is the newest record of the log
C15_Witness ==
  /\ last.n = 2
  /\ ~last.is_valid
  /\ last.prompt = QRice
  /\ last.response = Msg("validation_rejected")
  /\ Len(chat_history) = 2
  /\ chat_history[1].user_query = QRice
  /\ chat_history[2].tool_used = "validation"

\* the latest query was accepted by the validator and both probes said
\* online
OnlineAccepted ==
  /\ last.n > 0
  /\ last.is_valid
  /\ ~last.use_offline
  /\ last.p_response = "online"

\* the router model answered with a weather intent and a location
WeatherRouted ==
  /\ last.router_reply.kind = "text"
  /\ ~last.router_reply.fence
  /\ last.router_reply.inner.t = "obj"
  /\ DictGet(last.router_reply.inner.o, "tool", JNull) = JStr("weather")
  /\ "location" \in DOMAIN last.router_reply.inner.o

\* C16: for an online, accepted query the router model is asked, and when
\* it answers with a weather intent and a location, get_weather is called
\* with that location, its text is the context of the answer model, the
\* answer model's text is returned and the tool of the result (which the
\* page saves) is "weather".
C16_WeatherQueryReachesAdapter ==
  OnlineAccepted =>
    /\ Made("router_model")
    /\ WeatherRouted =>
         /\ Made("get_weather")
         /\ last.adapter_args = <<last.router_reply.inner.o["location"]>>
         /\ last.answer_context = last.adapter_text
         /\ last.answer_reply.kind = "text" =>
              last.response.msg = "answer" /\ last.tool = "weather"

\* a prompt is processed over an empty chat log with offline in effect
AskedOfflineOnEmptyLog ==
  /\ last'.n = last.n + 1
  /\ chat_history = <<>>
  /\ OfflineInEffect'

\* the fixed message is returned after a search that found nothing
EmptyLogAnswer ==
  /\ last'.outcome = "return"
  /\ last'.similar_chats = <<>>
  /\ last'.response = Msg("offline_no_match")
  /\ last'.tool = "offline_search"

\* C17 as stated: when the chat log is empty and offline is in effect,
\* find_similar_chats returns an empty list and get_ai_response returns the
\* fixed "cannot help offline" message, with no exception.
C17_EmptyLogOfflineMessage ==
  [][ AskedOfflineOnEmptyLog => EmptyLogAnswer ]_vars

\* C17 as amended: when the chat log is empty and offline is in effect,
\* find_similar_chats returns an empty list on the embedding path and on the
\* keyword-fallback path, and for every query the validator accepts
\* get_ai_response returns the fixed "cannot help offline" message, with no
\* exception; a query the validator rejects gets the rejection message.
C17_EmptyLogOfflineMessageIfAccepted ==
  [][ AskedOfflineOnEmptyLog =>
        /\ \A top_k \in {1, 3} :
             /\ find_similar_chats(last'.prompt, top_k, DefaultThreshold, chat_history) = {<<>>}
             /\ fallback_text_search(last'.prompt, top_k, chat_history) = <<>>
        /\ last'.outcome = "return"
        /\ IF last'.is_valid
           THEN EmptyLogAnswer
           ELSE last'.tool = "validation" /\ last'.response \in RejectionMessages
    ]_vars

\* the second prompt was asked offline right after the log was cleared, and
\* got the fixed message
C17_Witness ==
  /\ last.n = 2
  /\ sqlite_sequence = 2
  /\ Len(chat_history) = 1
  /\ OfflineInEffect
  /\ last.calls[Len(last.calls)] = "find_similar_chats"
  /\ last.similar_chats = <<>>
  /\ last.response = Msg("offline_no_match")

\* the ids of the rows now in the table
StoredIds == { chat_history[i].id : i \in 1..Len(chat_history) }

\* this step appends a row
Appended == Len(chat_history') = Len(chat_history) + 1

\* the row this step appends
NewRow == chat_history'[Len(chat_history')]

\* C18: every save_chat gives the new record an id strictly greater than the
\* id of every record ever appended before it, records since removed by
\* clear_chat_history included.  sqlite_sequence never decreases and bounds
\* every id given so far, and each new id is above it.
C18_IdsNeverReused ==
  [][ /\ sqlite_sequence' >= sqlite_sequence
      /\ Appended =>
            /\ NewRow.id > sqlite_sequence
            /\ NewRow.id <= sqlite_sequence'
            /\ \A id \in StoredIds : NewRow.id > id
    ]_vars

\* a record saved after two others were saved and cleared has id 3
C18_Witness ==
  /\ last.op = "save_chat"
  /\ Len(chat_history) = 1
  /\ chat_history[1].id = 3

\* the ids of a list of rows decrease strictly
NewestFirst(rows) ==
  \A i, j \in 1..Len(rows) : i < j => rows[i].id > rows[j].id

\* C19: save_chat immediately followed by get_all_chats(limit=1) returns
\* exactly one record, the one just appended; get_all_chats returns records
\* newest-appended first.
C19_ReadBackNewestFirst ==
  /\ last.op = "save_chat" =>
        /\ Len(last.rows) = 1
        /\ last.rows[1] = chat_history[Len(chat_history)]
        /\ last.rows[1].user_query = last.query
  /\ last.op = "get_all_chats" =>
        /\ Len(last.rows) = Len(chat_history)
        /\ NewestFirst(last.rows)

\* s occurs in text as a literal substring, letters compared without regard
\* to case
ContainsLiterally(text, s) == Contains(Lower(text), Lower(s))

\* C20: search_chats_by_query(s, limit) returns only records whose stored
\* query contains s as a literal substring, at most limit of them; % and _
\* in s match only themselves.
C20_SearchIsLiteralSubstring ==
  last.op = "search_chats_by_query" =>
    /\ Len(last.rows) <= last.limit
    /\ \A i \in 1..Len(last.rows) :
         ContainsLiterally(last.rows[i].user_query, last.query)

\* every row of the table before this step is the same row after it
RowsKept ==
  /\ Len(chat_history') >= Len(chat_history)
  /\ \A i \in 1..Len(chat_history) : chat_history'[i] = chat_history[i]

\* C21: a written record keeps its id, query, response, tool, metadata and
\* timestamp until it is removed; records are removed only by
\* clear_chat_history, which removes all of them; get_chat_count equals the
\* number of save_chat calls since the last clear (it is 0 after a clear,
\* one more after a save, and the same after a read).
C21_RecordsImmutableUntilClear ==
  [][ /\ last'.op = "clear_chat_history" => get_chat_count(chat_history') = 0
      /\ last'.op = "save_chat" =>
            /\ RowsKept
            /\ get_chat_count(chat_history') = get_chat_count(chat_history) + 1
      /\ last'.op \in {"get_all_chats", "search_chats_by_query"} =>
            /\ RowsKept
            /\ get_chat_count(chat_history') = get_chat_count(chat_history)
    ]_vars

\* two records were saved after a clear that removed an earlier one
C21_Witness ==
  /\ last.op = "save_chat"
  /\ get_chat_count(chat_history) = 2
  /\ chat_history[1].id = 2
  /\ chat_history[2].id = 3

\* the rows of a sequence, as a set
RowsOf(rows) == { rows[i] : i \in 1..Len(rows) }

Searched == last.op \in {"embedding", "fallback"}

\* C23: find_similar_chats, on the embedding path and on the keyword-fallback
\* path, leaves the store as it was: the records it read are the stored
\* records before and after the call, the similarity_score is attached to a
\* copy, and each result is a stored record with a score beside it.
C23_SearchLeavesStoreUntouched ==
  [][ last'.op \in {"embedding", "fallback"} =>
        /\ chat_history' = chat_history
        /\ sqlite_sequence' = sqlite_sequence
        /\ last'.all_chats_after = get_all_chats(chat_history, 0)
        /\ \A p \in 1..Len(last'.results) :
             last'.results[p].chat \in RowsOf(chat_history)
    ]_vars

\* a search over a log of three records attached a score to three results
C23_Witness ==
  /\ Searched
  /\ Len(last.results) = 3
  /\ Len(chat_history) = 3

\* the orders of the indices 1..n
Orderings(n) ==
  { f \in [1..n -> 1..n] : \A i, j \in 1..n : i # j => f[i] # f[j] }

\* the rankings of all entries by descending score
DescendingRankings(similarities) ==
  { r \in Orderings(Len(similarities)) :
      \A p, q \in 1..Len(similarities) :
        p < q => similarities[r[p]] >= similarities[r[q]] }

\* the specified procedure on one ranking: keep the entries with score >=
\* threshold, then truncate to top_k
RankFilterTruncate(all_chats, similarities, ranking, top_k, threshold) ==
  LET passed == SelectSeq(ranking, LAMBDA idx : similarities[idx] >= threshold)
      first == Take(passed, top_k)
  IN  [p \in 1..Len(first) |-> Scored(all_chats[first[p]], similarities[first[p]])]

\* C24: on the embedding path the result of find_similar_chats (top_k
\* highest first, then the threshold) is the list the specified procedure
\* gives (rank all descending, keep score >= threshold, truncate to top_k);
\* it is sorted by descending score and every score in it is >= threshold.
C24_TopKThenFilterIsFilterThenTopK ==
  last.op = "embedding" =>
    /\ \E ranking \in DescendingRankings(last.similarities) :
         last.results = RankFilterTruncate(get_all_chats(chat_history, 0),
                                           last.similarities, ranking,
                                           last.top_k, last.threshold)
    /\ \A p, q \in 1..Len(last.results) :
         p < q => last.results[p].similarity_score >= last.results[q].similarity_score
    /\ \A p \in 1..Len(last.results) :
         last.results[p].similarity_score >= last.threshold

\* a search with top_k = 1 over three entries, two of them at or above the
\* threshold and one below it, returned one entry
C24_Witness ==
  /\ last.op = "embedding"
  /\ last.top_k = 1
  /\ Len(last.similarities) = 3
  /\ Cardinality({ i \in 1..3 : last.similarities[i] >= last.threshold }) = 2
  /\ Len(last.results) = 1

\* the fraction, in hundredths, of the query's lower-cased whitespace-split
\* tokens that are present in the record's stored query
TokenOverlap(query, chat) ==
  LET tokens == Split(Lower(query))
      present == { i \in 1..Len(tokens) : Contains(Lower(chat.user_query), tokens[i]) }
  IN  IF tokens = <<>> THEN 0 ELSE (Cardinality(present) * 100) \div Len(tokens)

\* the token-overlap score of every stored record, in the order of
\* get_all_chats
TokenOverlaps(query) ==
  LET all_chats == get_all_chats(chat_history, 0)
  IN  [i \in 1..Len(all_chats) |-> TokenOverlap(query, all_chats[i])]

\* C25 as stated: fallback_text_search scores every stored record by the
\* fraction of the query's tokens present in its stored query, ranks all
\* records by descending score, applies no threshold filter and returns the
\* first top_k.
C25_FallbackRanksEveryRecord ==
  last.op = "fallback" =>
    \E ranking \in DescendingRankings(TokenOverlaps(last.query)) :
      last.results = RankFilterTruncate(get_all_chats(chat_history, 0),
                                        TokenOverlaps(last.query), ranking,
                                        last.top_k, 0)

\* C25 as amended: fallback_text_search scores every stored record by the
\* fraction of the query's tokens present in its stored query, leaves out
\* the records in which no token is present, ranks the others by descending
\* score, applies no threshold filter to them and returns the first top_k.
C25_FallbackRanksMatchedRecords ==
  last.op = "fallback" =>
    LET all_chats == get_all_chats(chat_history, 0)
        scores == TokenOverlaps(last.query)
    IN  \E ranking \in DescendingRankings(scores) :
          LET matched == SelectSeq(ranking, LAMBDA idx : scores[idx] > 0)
              first == Take(matched, last.top_k)
          IN  last.results =
                [p \in 1..Len(first) |-> Scored(all_chats[first[p]], scores[first[p]])]

\* a keyword search with room for three results returned two, both scored
\* below 0.3: the third record holds none of the query's tokens
C25_Witness ==
  /\ last.op = "fallback"
  /\ last.top_k = 3
  /\ Len(chat_history) = 3
  /\ Len(last.results) = 2
  /\ last.results[1].similarity_score < DefaultThreshold

\* the search was made as get_ai_response makes it (default threshold) and
\* its response quotes a past answer
QuotesPastAnswer ==
  /\ Searched
  /\ last.threshold = DefaultThreshold
  /\ last.response.msg = "offline_formatted"

\* C30: every historical answer quoted in an offline or fallback response
\* comes from a match whose similarity score is at least the 0.3 threshold,
\* on the embedding path and on the keyword-fallback path.
C30_QuotedAnswerReachesThreshold ==
  QuotesPastAnswer =>
    \A p \in 1..Len(last.results) :
      last.results[p].chat.id = last.response.quoted =>
        last.results[p].similarity_score >= DefaultThreshold

\* C26: transcribe_audio_bytes returns a 3-tuple (original text, English
\* text, detected language) on every path, audio shorter than a WAV header
\* and internal exceptions included, and on failure all three are None.
C26_TranscriptIsAlwaysATriple ==
  last.transcribed =>
    /\ Len(last.transcript) = 3
    /\ last.transcript[1] = JNull =>
         last.transcript[2] = JNull /\ last.transcript[3] = JNull

\* C28: after any script run that starts processing a recording the
\* processing_voice flag is no longer set, so a recording with a different
\* hash is eligible in a later run; and a recording whose hash equals
\* last_processed_audio_hash is not transcribed again.
C28_VoiceGuardNeverLocksUp ==
  [][ last'.runs = last.runs + 1 =>
        /\ ~last'.processing_voice
        /\ ~last'.voice_prompt =>
             \A audio_bytes \in Recordings :
               audio_bytes.hash # last'.last_processed_audio_hash =>
                 Eligible(audio_bytes, last')
        /\ (last'.audio.hash = last.last_processed_audio_hash) => ~last'.transcribed
    ]_vars

\* C27: if the validator skipped domain validation because its probe said
\* offline, the request is answered from the offline similarity search and
\* reaches neither the router, nor an adapter, nor the answer model, whatever
\* the other probes of the request say.
C27_OfflineSkipMeansOfflineAnswer ==
  (last.n > 0 /\ last.p_validator = "offline") =>
    /\ \A fn \in OnlineSteps : ~Made(fn)
    /\ last.outcome = "return"
    /\ last.tool = "offline_search"
    /\ last.top_k = 3

\* the values of the third component `tool` of a result
ToolNames ==
  { "validation", "offline_search", "offline_fallback", "error", "none",
    "weather", "market_price", "general_search" }

\* the adapter of each tool, and the parameters context_data holds for it
AdapterOf(tool) ==
  IF tool = "weather" THEN "get_weather"
  ELSE IF tool = "market_price" THEN "get_market_price"
  ELSE "google_search"

RecordedParameters(tool, context_data) ==
  IF tool = "weather" THEN <<context_data.location>>
  ELSE IF tool = "market_price" THEN <<context_data.crop, context_data.state>>
  ELSE <<context_data.query>>

\* how many times the run r called fn
CallsOf(r, fn) == Cardinality({ i \in DOMAIN r.calls : r.calls[i] = fn })

\* a returned result is as C29 says
ResultWellFormed(r) ==
  /\ r.tool \in ToolNames
  /\ r.context_data # None =>
       /\ r.tool \in {"weather", "market_price", "general_search"}
       /\ CallsOf(r, "answer_model") = 1
       /\ CallsOf(r, "get_weather") + CallsOf(r, "get_market_price")
            + CallsOf(r, "google_search") = 1
       /\ CallsOf(r, AdapterOf(r.tool)) = 1
       /\ r.context_data.tool = JStr(r.tool)
       /\ RecordedParameters(r.tool, r.context_data) = r.adapter_args

\* C29: every result get_ai_response returns is a triple (response, tool,
\* context) with tool one of the eight tool names; context is non-null only
\* with tool weather, market_price or general_search, and then the answer
\* model was called exactly once, exactly one adapter exactly once, and
\* context holds that tool name and the parameters given to the adapter.
\* Stated of the result of Steps 1 to 3 and of every result of the whole
\* function on the log at hand.
C29_ResultsWellFormed ==
  /\ (last.n > 0 /\ last.outcome = "return") => ResultWellFormed(last)
  /\ \A query \in Queries, use_offline \in BOOLEAN :
       \A r \in get_ai_response(query, use_offline, chat_history) :
         r.outcome = "return" => ResultWellFormed(r)

\* a price request was answered: context holds the tool and the crop and
\* state given to get_market_price
C29_Witness ==
  /\ last.n > 0
  /\ last.outcome = "return"
  /\ last.tool = "market_price"
  /\ last.context_data # None
  /\ last.context_data.crop = JStr("wheat")
  /\ last.adapter_args = <<JStr("wheat"), JStr("Punjab")>>

====
